---- MODULE Spec2Model ----
(***************************************************************************)
(* Ghosted: the Unicode scanner and cleaner (unicode_scanner.py), the      *)
(* detector registry fan-out (detector_registry.py), the detectors         *)
(* (services/detectors), the detect router summary (routers/detect.py),    *)
(* the comparator (comparison.py), the compare router                      *)
(* (routers/compare.py), the lazily built registry (get_registry) and the  *)
(* retry loop of the offline experiment (scripts/run_experiment.py).       *)
(*                                                                         *)
(* A text is a sequence of code points (naturals).  A Python dict is a     *)
(* sequence of [key, value] records in insertion order.  A "U+XXXX" label  *)
(* is the sequence of its characters.                                      *)
(***************************************************************************)
EXTENDS Integers, Sequences, FiniteSets, TLC

VARIABLES
  input,           \* the arguments of scan and clean: [text, smart]
  pc,              \* how far scan, clean and the second clean have run
  scan_result,     \* ScanResult of scan(input.text, input.smart)
  clean_result,    \* CleanResult of clean(input.text, input.smart)
  reclean_result,  \* CleanResult of clean(clean_result.cleaned_text, input.smart)
  api_keys,        \* the credentials the detectors hold (TRUE: a non-empty key)
  request_detectors, \* detector_names, as DetectRequest.detectors gives it
  dpc,             \* how far detect_all and the router have run
  detectors,       \* detect_all: the detectors selected, in order
  tasks,           \* detect_all: one task per selected detector
  raw_results,     \* what detect_all returned
  response,        \* the DetectResponse built from raw_results
  cpc,             \* how far the two detector batches of compare have run
  batches,         \* compare: the detect_all call on the original and on the cleaned text
  compare_response, \* the CompareResponse
  groq_call,       \* one Groq detect(): the detector and the content of the completion
  gpc,             \* how far that detect() has run
  groq_result,     \* what it returned or raised, and the note of the result
  settings,        \* app.config.settings: the credentials read from the environment
  _registry,       \* the module global of detector_registry
  init_runs,       \* how many times _init_registry has been entered
  got,             \* per caller, what each of its get_registry() calls gave
  epc,             \* run_experiment: where one sample's iteration stands
  phase,           \* which text is being scored: "baseline" or "injected"
  det_index,       \* which entry of ROBERTA_MODELS is being scored
  attempt,         \* detect_hf: the loop variable of range(3)
  responses,       \* detect_hf: the responses the current call has received
  scores,          \* what each detect_hf call of the iteration returned
  baseline_scores, \* run_experiment: the scores kept for the original text
  injected_scores, \* run_experiment: the scores kept for the injected text
  char_results     \* run_experiment: the deltas appended for this sample

text_vars == <<input, pc, scan_result, clean_result, reclean_result>>

detect_vars == <<api_keys, request_detectors, dpc, detectors, tasks, raw_results, response>>

compare_vars == <<cpc, batches, compare_response>>

groq_vars == <<groq_call, gpc, groq_result>>

registry_vars == <<settings, _registry, init_runs, got>>

experiment_vars ==
  <<epc, phase, det_index, attempt, responses, scores, baseline_scores, injected_scores, char_results>>

\* the components modelled on their own
component_vars == <<groq_vars, registry_vars, experiment_vars>>

vars == <<input, pc, scan_result, clean_result, reclean_result,
          api_keys, request_detectors, dpc, detectors, tasks, raw_results, response,
          cpc, batches, compare_response,
          groq_call, gpc, groq_result,
          settings, _registry, init_runs, got,
          epc, phase, det_index, attempt, responses, scores,
          baseline_scores, injected_scores, char_results>>

(***************************************************************************)
(* Bounds of the model.                                                    *)
(***************************************************************************)
\* longest text drawn over ShortAlphabet
MaxLen == 4

\* how many repetitions beyond the positions cap a long text goes
MaxOver == 1

\* most detector names an explicit request carries
MaxNames == 2

\* how many request handlers call get_registry
MaxCallers == 3

\* how many times one of them calls it
MaxCalls == 2

(***************************************************************************)
(* Classification tables.                                                  *)
(***************************************************************************)
INVISIBLE_CHARS ==
     (8203 :> [name |-> "ZERO WIDTH SPACE", category |-> "zero-width", threat_level |-> "high"])  \* U+200B
  @@ (8204 :> [name |-> "ZERO WIDTH NON-JOINER", category |-> "zero-width", threat_level |-> "high"])  \* U+200C
  @@ (8205 :> [name |-> "ZERO WIDTH JOINER", category |-> "zero-width", threat_level |-> "high"])  \* U+200D
  @@ (8288 :> [name |-> "WORD JOINER", category |-> "zero-width", threat_level |-> "high"])  \* U+2060
  @@ (65279 :> [name |-> "ZERO WIDTH NO-BREAK SPACE / BOM", category |-> "zero-width", threat_level |-> "high"])  \* U+FEFF
  @@ (8206 :> [name |-> "LEFT-TO-RIGHT MARK", category |-> "bidi", threat_level |-> "medium"])  \* U+200E
  @@ (8207 :> [name |-> "RIGHT-TO-LEFT MARK", category |-> "bidi", threat_level |-> "medium"])  \* U+200F
  @@ (8234 :> [name |-> "LEFT-TO-RIGHT EMBEDDING", category |-> "bidi", threat_level |-> "medium"])  \* U+202A
  @@ (8235 :> [name |-> "RIGHT-TO-LEFT EMBEDDING", category |-> "bidi", threat_level |-> "medium"])  \* U+202B
  @@ (8236 :> [name |-> "POP DIRECTIONAL FORMATTING", category |-> "bidi", threat_level |-> "medium"])  \* U+202C
  @@ (8237 :> [name |-> "LEFT-TO-RIGHT OVERRIDE", category |-> "bidi", threat_level |-> "medium"])  \* U+202D
  @@ (8238 :> [name |-> "RIGHT-TO-LEFT OVERRIDE", category |-> "bidi", threat_level |-> "medium"])  \* U+202E
  @@ (8294 :> [name |-> "LEFT-TO-RIGHT ISOLATE", category |-> "bidi", threat_level |-> "medium"])  \* U+2066
  @@ (8295 :> [name |-> "RIGHT-TO-LEFT ISOLATE", category |-> "bidi", threat_level |-> "medium"])  \* U+2067
  @@ (8296 :> [name |-> "FIRST STRONG ISOLATE", category |-> "bidi", threat_level |-> "medium"])  \* U+2068
  @@ (8297 :> [name |-> "POP DIRECTIONAL ISOLATE", category |-> "bidi", threat_level |-> "medium"])  \* U+2069
  @@ (1564 :> [name |-> "ARABIC LETTER MARK", category |-> "bidi", threat_level |-> "medium"])  \* U+061C
  @@ (173 :> [name |-> "SOFT HYPHEN", category |-> "whitespace", threat_level |-> "low"])  \* U+00AD
  @@ (6158 :> [name |-> "MONGOLIAN VOWEL SEPARATOR", category |-> "whitespace", threat_level |-> "medium"])  \* U+180E
  @@ (8192 :> [name |-> "EN QUAD", category |-> "whitespace", threat_level |-> "low"])  \* U+2000
  @@ (8193 :> [name |-> "EM QUAD", category |-> "whitespace", threat_level |-> "low"])  \* U+2001
  @@ (8194 :> [name |-> "EN SPACE", category |-> "whitespace", threat_level |-> "low"])  \* U+2002
  @@ (8195 :> [name |-> "EM SPACE", category |-> "whitespace", threat_level |-> "low"])  \* U+2003
  @@ (8196 :> [name |-> "THREE-PER-EM SPACE", category |-> "whitespace", threat_level |-> "low"])  \* U+2004
  @@ (8197 :> [name |-> "FOUR-PER-EM SPACE", category |-> "whitespace", threat_level |-> "low"])  \* U+2005
  @@ (8198 :> [name |-> "SIX-PER-EM SPACE", category |-> "whitespace", threat_level |-> "low"])  \* U+2006
  @@ (8199 :> [name |-> "FIGURE SPACE", category |-> "whitespace", threat_level |-> "low"])  \* U+2007
  @@ (8200 :> [name |-> "PUNCTUATION SPACE", category |-> "whitespace", threat_level |-> "low"])  \* U+2008
  @@ (8201 :> [name |-> "THIN SPACE", category |-> "whitespace", threat_level |-> "low"])  \* U+2009
  @@ (8202 :> [name |-> "HAIR SPACE", category |-> "whitespace", threat_level |-> "low"])  \* U+200A
  @@ (8239 :> [name |-> "NARROW NO-BREAK SPACE", category |-> "whitespace", threat_level |-> "low"])  \* U+202F
  @@ (8298 :> [name |-> "INHIBIT SYMMETRIC SWAPPING", category |-> "deprecated", threat_level |-> "low"])  \* U+206A
  @@ (8299 :> [name |-> "ACTIVATE SYMMETRIC SWAPPING", category |-> "deprecated", threat_level |-> "low"])  \* U+206B
  @@ (8300 :> [name |-> "INHIBIT ARABIC FORM SHAPING", category |-> "deprecated", threat_level |-> "low"])  \* U+206C
  @@ (8301 :> [name |-> "ACTIVATE ARABIC FORM SHAPING", category |-> "deprecated", threat_level |-> "low"])  \* U+206D
  @@ (8302 :> [name |-> "NATIONAL DIGIT SHAPES", category |-> "deprecated", threat_level |-> "low"])  \* U+206E
  @@ (8303 :> [name |-> "NOMINAL DIGIT SHAPES", category |-> "deprecated", threat_level |-> "low"])  \* U+206F
  @@ (8289 :> [name |-> "FUNCTION APPLICATION", category |-> "invisible-math", threat_level |-> "low"])  \* U+2061
  @@ (8290 :> [name |-> "INVISIBLE TIMES", category |-> "invisible-math", threat_level |-> "low"])  \* U+2062
  @@ (8291 :> [name |-> "INVISIBLE SEPARATOR", category |-> "invisible-math", threat_level |-> "low"])  \* U+2063
  @@ (8292 :> [name |-> "INVISIBLE PLUS", category |-> "invisible-math", threat_level |-> "low"])  \* U+2064
  @@ (65529 :> [name |-> "INTERLINEAR ANNOTATION ANCHOR", category |-> "annotation", threat_level |-> "low"])  \* U+FFF9
  @@ (65530 :> [name |-> "INTERLINEAR ANNOTATION SEPARATOR", category |-> "annotation", threat_level |-> "low"])  \* U+FFFA
  @@ (65531 :> [name |-> "INTERLINEAR ANNOTATION TERMINATOR", category |-> "annotation", threat_level |-> "low"])  \* U+FFFB
  @@ (4447 :> [name |-> "HANGUL CHOSEONG FILLER", category |-> "formatting", threat_level |-> "low"])  \* U+115F
  @@ (4448 :> [name |-> "HANGUL JUNGSEONG FILLER", category |-> "formatting", threat_level |-> "low"])  \* U+1160
  @@ (6068 :> [name |-> "KHMER VOWEL INHERENT AQ", category |-> "formatting", threat_level |-> "low"])  \* U+17B4
  @@ (6069 :> [name |-> "KHMER VOWEL INHERENT AA", category |-> "formatting", threat_level |-> "low"])  \* U+17B5
  @@ (847 :> [name |-> "COMBINING GRAPHEME JOINER", category |-> "formatting", threat_level |-> "low"])  \* U+034F

\* mutant: the em dash is replaced by an en dash
SMART_CHARS_em_to_en_dash ==
     (8216 :> [replacement |-> <<39>>, name |-> "LEFT SINGLE QUOTATION MARK"])
  @@ (8217 :> [replacement |-> <<39>>, name |-> "RIGHT SINGLE QUOTATION MARK"])
  @@ (8220 :> [replacement |-> <<34>>, name |-> "LEFT DOUBLE QUOTATION MARK"])
  @@ (8221 :> [replacement |-> <<34>>, name |-> "RIGHT DOUBLE QUOTATION MARK"])
  @@ (8211 :> [replacement |-> <<45>>, name |-> "EN DASH"])
  @@ (8212 :> [replacement |-> <<8211>>, name |-> "EM DASH"])
  @@ (8230 :> [replacement |-> <<46, 46, 46>>, name |-> "HORIZONTAL ELLIPSIS"])

SMART_CHARS ==
     (8216 :> [replacement |-> <<39>>, name |-> "LEFT SINGLE QUOTATION MARK"])  \* U+2018 -> "'"
  @@ (8217 :> [replacement |-> <<39>>, name |-> "RIGHT SINGLE QUOTATION MARK"])  \* U+2019 -> "'"
  @@ (8220 :> [replacement |-> <<34>>, name |-> "LEFT DOUBLE QUOTATION MARK"])  \* U+201C -> '"'
  @@ (8221 :> [replacement |-> <<34>>, name |-> "RIGHT DOUBLE QUOTATION MARK"])  \* U+201D -> '"'
  @@ (8211 :> [replacement |-> <<45>>, name |-> "EN DASH"])  \* U+2013 -> '-'
  @@ (8212 :> [replacement |-> <<45, 45>>, name |-> "EM DASH"])  \* U+2014 -> '--'
  @@ (8230 :> [replacement |-> <<46, 46, 46>>, name |-> "HORIZONTAL ELLIPSIS"])  \* U+2026 -> '...'

\* _INVISIBLE_SET = set(INVISIBLE_CHARS.keys())
InvisibleSet == DOMAIN INVISIBLE_CHARS

SmartSet == DOMAIN SMART_CHARS

(***************************************************************************)
(* Python values: dicts in insertion order, None, "U+XXXX" labels.         *)
(***************************************************************************)
None == [is_none |-> TRUE]

Some(v) == [is_none |-> FALSE, value |-> v]

DictHas(d, k) == \E i \in DOMAIN d : d[i].key = k

DictIndex(d, k) == CHOOSE i \in DOMAIN d : d[i].key = k

\* d.get(k, default)
DictGet(d, k, default) == IF DictHas(d, k) THEN d[DictIndex(d, k)].value ELSE default

\* d[k] = v: an existing key keeps its place, a new key goes last
DictPut(d, k, v) ==
  IF DictHas(d, k) THEN [d EXCEPT ![DictIndex(d, k)].value = v]
  ELSE Append(d, [key |-> k, value |-> v])

HexChars == <<"0", "1", "2", "3", "4", "5", "6", "7", "8", "9", "A", "B", "C", "D", "E", "F">>

RECURSIVE HexDigits(_)
HexDigits(n) ==
  IF n < 16 THEN <<HexChars[n + 1]>>
  ELSE Append(HexDigits(n \div 16), HexChars[(n % 16) + 1])

RECURSIVE ZeroPad(_, _)
ZeroPad(s, width) == IF Len(s) < width THEN ZeroPad(<<"0">> \o s, width) ELSE s

\* f"U+{ord(ch):04X}"
Label(ch) == <<"U", "+">> \o ZeroPad(HexDigits(ch), 4)

HexValue(c) == (CHOOSE i \in 1..16 : HexChars[i] = c) - 1

RECURSIVE ParseHex(_)
ParseHex(s) ==
  IF s = <<>> THEN 0
  ELSE 16 * ParseHex(SubSeq(s, 1, Len(s) - 1)) + HexValue(s[Len(s)])

\* chr(int(char_code[2:], 16))
LabelChar(char_code) == ParseHex(SubSeq(char_code, 3, Len(char_code)))

\* The for loops below apply their body to each element once, left to
\* right.  Each halves its range and evaluates the left half (left = left)
\* before the right half starts, so that the evaluation nests only
\* log(hi - lo) deep.

RECURSIVE sum_counts(_, _, _)
\* sum(x.count for x in xs[lo..hi])
sum_counts(xs, lo, hi) ==
  IF lo > hi THEN 0
  ELSE IF lo = hi THEN xs[lo].count
  ELSE LET mid == (lo + hi) \div 2
           left == sum_counts(xs, lo, mid)
       IN IF left = left THEN left + sum_counts(xs, mid + 1, hi) ELSE left

(***************************************************************************)
(* scan(text, include_smart_chars)                                         *)
(***************************************************************************)
\* positions[:50]
PositionsCap == 50

\* mutant: char_data[ch] = [i] in place of setdefault(ch, []).append(i)
char_data_step_overwrite(char_data, i, ch) ==
  IF ch \in InvisibleSet THEN DictPut(char_data, ch, <<i - 1>>) ELSE char_data

\* if ch in _INVISIBLE_SET: char_data.setdefault(ch, []).append(i)
\* (enumerate counts from 0: the offset of the character at index i is i - 1)
char_data_step(char_data, i, ch) ==
  IF ch \in InvisibleSet
  THEN DictPut(char_data, ch, Append(DictGet(char_data, ch, <<>>), i - 1))
  ELSE char_data

RECURSIVE char_data_loop(_, _, _, _)
\* for i, ch in enumerate(text): ...
char_data_loop(xs, lo, hi, acc) ==
  IF lo > hi THEN acc
  ELSE IF lo = hi THEN char_data_step(acc, lo, xs[lo])
  ELSE LET mid == (lo + hi) \div 2
           left == char_data_loop(xs, lo, mid, acc)
       IN IF left = left THEN char_data_loop(xs, mid + 1, hi, left) ELSE left

threat_order(level) ==
  CASE level = "high" -> 0 [] level = "medium" -> 1 [] level = "low" -> 2 [] OTHER -> 3

\* mutant: the count is taken from the capped positions
CharFinding_capped_count(ch, positions) ==
  LET capped == SubSeq(positions, 1, IF Len(positions) < PositionsCap THEN Len(positions) ELSE PositionsCap)
  IN [char |-> Label(ch),
      name |-> INVISIBLE_CHARS[ch].name,
      category |-> INVISIBLE_CHARS[ch].category,
      threat_level |-> INVISIBLE_CHARS[ch].threat_level,
      count |-> Len(capped),
      positions |-> capped]

CharFinding(ch, positions) ==
  [char |-> Label(ch),
   name |-> INVISIBLE_CHARS[ch].name,
   category |-> INVISIBLE_CHARS[ch].category,
   threat_level |-> INVISIBLE_CHARS[ch].threat_level,
   count |-> Len(positions),
   positions |-> SubSeq(positions, 1, IF Len(positions) < PositionsCap THEN Len(positions) ELSE PositionsCap)]

\* mutant: the key is (threat, f.count), the count ascending
SortKeyLess_ascending(f, g) ==
  \/ threat_order(f.threat_level) < threat_order(g.threat_level)
  \/ /\ threat_order(f.threat_level) = threat_order(g.threat_level)
     /\ f.count < g.count

\* key=lambda f: (threat_order.get(f.threat_level, 3), -f.count), compared as a tuple
SortKeyLess(f, g) ==
  \/ threat_order(f.threat_level) < threat_order(g.threat_level)
  \/ /\ threat_order(f.threat_level) = threat_order(g.threat_level)
     /\ (0 - f.count) < (0 - g.count)

\* where f goes in a sorted list: before the first element that sorts strictly after it
InsertSorted(sorted, f) ==
  LET later == {j \in DOMAIN sorted : SortKeyLess(f, sorted[j])}
      at == IF later = {} THEN Len(sorted) + 1
            ELSE CHOOSE j \in later : \A k \in later : j <= k
  IN SubSeq(sorted, 1, at - 1) \o <<f>> \o SubSeq(sorted, at, Len(sorted))

RECURSIVE SortFindings(_, _, _, _)
\* findings.sort(key=...): list.sort is stable; each finding in turn is
\* inserted behind the findings that do not sort after it
SortFindings(findings, lo, hi, sorted) ==
  IF lo > hi THEN sorted
  ELSE IF lo = hi THEN InsertSorted(sorted, findings[lo])
  ELSE LET mid == (lo + hi) \div 2
           left == SortFindings(findings, lo, mid, sorted)
       IN IF left = left THEN SortFindings(findings, mid + 1, hi, left) ELSE left

\* categories[f.category] = categories.get(f.category, 0) + f.count
categories_step(categories, f) ==
  DictPut(categories, f.category, DictGet(categories, f.category, 0) + f.count)

RECURSIVE categories_loop(_, _, _, _)
\* for f in findings: ...
categories_loop(xs, lo, hi, acc) ==
  IF lo > hi THEN acc
  ELSE IF lo = hi THEN categories_step(acc, xs[lo])
  ELSE LET mid == (lo + hi) \div 2
           left == categories_loop(xs, lo, mid, acc)
       IN IF left = left THEN categories_loop(xs, mid + 1, hi, left) ELSE left

\* if ch in SMART_CHARS: smart_data[ch] = smart_data.get(ch, 0) + 1
smart_data_step(smart_data, ch) ==
  IF ch \in SmartSet
  THEN DictPut(smart_data, ch, DictGet(smart_data, ch, 0) + 1)
  ELSE smart_data

RECURSIVE smart_data_loop(_, _, _, _)
\* for ch in text: ...
smart_data_loop(xs, lo, hi, acc) ==
  IF lo > hi THEN acc
  ELSE IF lo = hi THEN smart_data_step(acc, xs[lo])
  ELSE LET mid == (lo + hi) \div 2
           left == smart_data_loop(xs, lo, mid, acc)
       IN IF left = left THEN smart_data_loop(xs, mid + 1, hi, left) ELSE left

SmartCharFinding(ch, count) ==
  [char |-> Label(ch), name |-> SMART_CHARS[ch].name, count |-> count,
   replacement |-> SMART_CHARS[ch].replacement]

\* mutant: without the else branch, smart_findings stays None when no smart character is found
smart_findings_none_when_empty(text, include_smart_chars) ==
  IF include_smart_chars
  THEN LET smart_data == smart_data_loop(text, 1, Len(text), <<>>)
       IN IF smart_data # <<>>
          THEN Some([i \in DOMAIN smart_data |->
                       SmartCharFinding(smart_data[i].key, smart_data[i].value)])
          ELSE None
  ELSE None

smart_findings(text, include_smart_chars) ==
  IF include_smart_chars
  THEN LET smart_data == smart_data_loop(text, 1, Len(text), <<>>)
       IN Some([i \in DOMAIN smart_data |->
                  SmartCharFinding(smart_data[i].key, smart_data[i].value)])
  ELSE None

\* mutant: the bidi branch is tried before the zero-width branch
context_bidi_first(total_invisible, categories) ==
  IF total_invisible = 0
  THEN [likely_source |-> "none",
        explanation |-> "No invisible characters detected. Your text is clean."]
  ELSE IF DictGet(categories, "bidi", 0) > 0
  THEN [likely_source |-> "copy_paste",
        explanation |-> "Bidirectional marks found."]
  ELSE IF DictGet(categories, "zero-width", 0) > 0
  THEN [likely_source |-> "tokenizer_artifact",
        explanation |-> "Zero-width characters found."]
  ELSE [likely_source |-> "formatting",
        explanation |-> "Unusual whitespace or formatting characters found."]

\* the context rule: the first branch that matches
context(total_invisible, categories) ==
  IF total_invisible = 0
  THEN [likely_source |-> "none",
        explanation |-> "No invisible characters detected. Your text is clean."]
  ELSE IF DictGet(categories, "zero-width", 0) > 0
  THEN [likely_source |-> "tokenizer_artifact",
        explanation |-> "Zero-width characters found."]
  ELSE IF DictGet(categories, "bidi", 0) > 0 /\ DictGet(categories, "zero-width", 0) = 0
  THEN [likely_source |-> "copy_paste",
        explanation |-> "Bidirectional marks found."]
  ELSE [likely_source |-> "formatting",
        explanation |-> "Unusual whitespace or formatting characters found."]

scan(text, include_smart_chars) ==
  LET char_data == char_data_loop(text, 1, Len(text), <<>>)
      unsorted == [i \in DOMAIN char_data |-> CharFinding(char_data[i].key, char_data[i].value)]
      findings == SortFindings(unsorted, 1, Len(unsorted), <<>>)
      categories == categories_loop(findings, 1, Len(findings), <<>>)
      total_invisible == sum_counts(findings, 1, Len(findings))
  IN [has_invisible_chars |-> total_invisible > 0,
      total_invisible_count |-> total_invisible,
      char_count |-> Len(text),
      categories |-> categories,
      findings |-> findings,
      smart_chars |-> smart_findings(text, include_smart_chars),
      context |-> context(total_invisible, categories)]

(***************************************************************************)
(* clean(text, normalize_smart_chars)                                      *)
(***************************************************************************)
\* mutant: removals_count[key] = 1
tally_once(removals_count, key) == DictPut(removals_count, key, 1)

\* removals_count[key] = removals_count.get(key, 0) + 1
tally(removals_count, key) == DictPut(removals_count, key, DictGet(removals_count, key, 0) + 1)

\* mutant: the smart branch tallies the character but appends it unreplaced
clean_step_keeps_smart(acc, ch, normalize_smart_chars) ==
  IF ch \in InvisibleSet
  THEN [cleaned_text |-> acc.cleaned_text,
        removals_count |-> tally(acc.removals_count, Label(ch))]
  ELSE IF normalize_smart_chars /\ ch \in SmartSet
  THEN [cleaned_text |-> Append(acc.cleaned_text, ch),
        removals_count |-> tally(acc.removals_count, Label(ch))]
  ELSE [cleaned_text |-> Append(acc.cleaned_text, ch),
        removals_count |-> acc.removals_count]

\* mutant: an invisible character is dropped without being tallied
clean_step_untallied(acc, ch, normalize_smart_chars) ==
  IF ch \in InvisibleSet
  THEN [cleaned_text |-> acc.cleaned_text,
        removals_count |-> acc.removals_count]
  ELSE IF normalize_smart_chars /\ ch \in SmartSet
  THEN [cleaned_text |-> acc.cleaned_text \o SMART_CHARS[ch].replacement,
        removals_count |-> tally(acc.removals_count, Label(ch))]
  ELSE [cleaned_text |-> Append(acc.cleaned_text, ch),
        removals_count |-> acc.removals_count]

\* mutant: the smart branch appends only the first character of the replacement
clean_step_first_char(acc, ch, normalize_smart_chars) ==
  IF ch \in InvisibleSet
  THEN [cleaned_text |-> acc.cleaned_text,
        removals_count |-> tally(acc.removals_count, Label(ch))]
  ELSE IF normalize_smart_chars /\ ch \in SmartSet
  THEN [cleaned_text |-> Append(acc.cleaned_text, SMART_CHARS[ch].replacement[1]),
        removals_count |-> tally(acc.removals_count, Label(ch))]
  ELSE [cleaned_text |-> Append(acc.cleaned_text, ch),
        removals_count |-> acc.removals_count]

\* mutant: a smart character is replaced without being tallied
clean_step_smart_untallied(acc, ch, normalize_smart_chars) ==
  IF ch \in InvisibleSet
  THEN [cleaned_text |-> acc.cleaned_text,
        removals_count |-> tally(acc.removals_count, Label(ch))]
  ELSE IF normalize_smart_chars /\ ch \in SmartSet
  THEN [cleaned_text |-> acc.cleaned_text \o SMART_CHARS[ch].replacement,
        removals_count |-> acc.removals_count]
  ELSE [cleaned_text |-> Append(acc.cleaned_text, ch),
        removals_count |-> acc.removals_count]

\* the body of the loop for one character; acc is [cleaned_text, removals_count]
clean_step(acc, ch, normalize_smart_chars) ==
  IF ch \in InvisibleSet
  THEN [cleaned_text |-> acc.cleaned_text,
        removals_count |-> tally(acc.removals_count, Label(ch))]
  ELSE IF normalize_smart_chars /\ ch \in SmartSet
  THEN [cleaned_text |-> acc.cleaned_text \o SMART_CHARS[ch].replacement,
        removals_count |-> tally(acc.removals_count, Label(ch))]
  ELSE [cleaned_text |-> Append(acc.cleaned_text, ch),
        removals_count |-> acc.removals_count]

RECURSIVE clean_loop(_, _, _, _, _)
\* for ch in text: ...
clean_loop(xs, lo, hi, acc, normalize_smart_chars) ==
  IF lo > hi THEN acc
  ELSE IF lo = hi THEN clean_step(acc, xs[lo], normalize_smart_chars)
  ELSE LET mid == (lo + hi) \div 2
           left == clean_loop(xs, lo, mid, acc, normalize_smart_chars)
       IN IF left = left THEN clean_loop(xs, mid + 1, hi, left, normalize_smart_chars) ELSE left

\* the name looked up from the label
removal_name(char_code) ==
  LET ch == LabelChar(char_code)
  IN IF ch \in InvisibleSet THEN INVISIBLE_CHARS[ch].name
     ELSE IF ch \in SmartSet THEN SMART_CHARS[ch].name
     ELSE "UNKNOWN"

clean(text, normalize_smart_chars) ==
  LET done == clean_loop(text, 1, Len(text),
                         [cleaned_text |-> <<>>, removals_count |-> <<>>],
                         normalize_smart_chars)
      removals == [i \in DOMAIN done.removals_count |->
                     [char |-> done.removals_count[i].key,
                      name |-> removal_name(done.removals_count[i].key),
                      count |-> done.removals_count[i].value]]
  IN [cleaned_text |-> done.cleaned_text,
      original_length |-> Len(text),
      cleaned_length |-> Len(done.cleaned_text),
      chars_removed |-> sum_counts(removals, 1, Len(removals)),
      removals |-> removals]

(***************************************************************************)
(* The texts the requests are drawn from.                                  *)
(***************************************************************************)
\* U+200B (zero-width, high), U+200E (bidi, medium), U+180E (whitespace,
\* medium), U+2003 (whitespace, low), U+2014 (em dash), U+201C (left double
\* quote), "a", "-"
ShortAlphabet == {8203, 8206, 6158, 8195, 8212, 8220, 97, 45}

\* every character of either table, and the characters the replacements emit
TableAlphabet == InvisibleSet \cup SmartSet \cup {39, 34, 45, 46}

\* U+200B, U+200E, U+2014, "a"
UnitAlphabet == {8203, 8206, 8212, 97}

SeqsUpTo(S, n) == UNION {[1..k -> S] : k \in 0..n}

\* u repeated r times
Repeat(u, r) == [i \in 1..(r * Len(u)) |-> u[((i - 1) % Len(u)) + 1]]

ShortTexts == SeqsUpTo(ShortAlphabet, MaxLen)

TableTexts == {<<c>> : c \in TableAlphabet}

\* a unit of one or two characters repeated up to and beyond the positions cap
LongTexts ==
  {Repeat(u, r) : u \in SeqsUpTo(UnitAlphabet, 2) \ {<<>>},
                  r \in (PositionsCap - 1)..(PositionsCap + MaxOver)}

Texts == ShortTexts \cup TableTexts \cup LongTexts

(***************************************************************************)
(* scan and clean applied to a text under one flag (as compare does), and  *)
(* clean applied to its own output.                                        *)
(***************************************************************************)
DetectIdle ==
  /\ api_keys = [sapling_api_key |-> FALSE, hf_api_token |-> FALSE, groq_api_key |-> FALSE]
  /\ request_detectors = None
  /\ dpc = "off"
  /\ detectors = <<>>
  /\ tasks = <<>>
  /\ raw_results = None
  /\ response = None

CompareIdle ==
  /\ cpc = "off"
  /\ batches = None
  /\ compare_response = None

GroqIdle ==
  /\ groq_call = None
  /\ gpc = "off"
  /\ groq_result = None

RegistryIdle ==
  /\ settings = None
  /\ _registry = None
  /\ init_runs = 0
  /\ got = <<>>

ExperimentIdle ==
  /\ epc = "off"
  /\ phase = "baseline"
  /\ det_index = 1
  /\ attempt = 0
  /\ responses = <<>>
  /\ scores = <<>>
  /\ baseline_scores = <<>>
  /\ injected_scores = <<>>
  /\ char_results = <<>>

ComponentIdle == GroqIdle /\ RegistryIdle /\ ExperimentIdle

Init ==
  /\ input \in [text : Texts, smart : BOOLEAN]
  /\ pc = "start"
  /\ scan_result = None
  /\ clean_result = None
  /\ reclean_result = None
  /\ DetectIdle
  /\ CompareIdle
  /\ ComponentIdle

\* scan(text, include_smart_chars)
Scan ==
  /\ pc = "start"
  /\ scan_result' = scan(input.text, input.smart)
  /\ pc' = "scanned"
  /\ UNCHANGED <<input, clean_result, reclean_result, detect_vars, compare_vars, component_vars>>

\* clean(text, normalize_smart_chars)
Clean ==
  /\ pc = "scanned"
  /\ clean_result' = clean(input.text, input.smart)
  /\ pc' = "cleaned"
  /\ UNCHANGED <<input, scan_result, reclean_result, detect_vars, compare_vars, component_vars>>

\* clean(clean(text, n).cleaned_text, n)
Reclean ==
  /\ pc = "cleaned"
  /\ reclean_result' = clean(clean_result.cleaned_text, input.smart)
  /\ pc' = "recleaned"
  /\ UNCHANGED <<input, scan_result, clean_result, detect_vars, compare_vars, component_vars>>

Next == Scan \/ Clean \/ Reclean

Spec == Init /\ [][Next]_vars

(***************************************************************************)
(* The detectors, DetectorRegistry.detect_all and the detect router.       *)
(* Scores are fixed-point numbers: ScoreOne units make 1.0.                *)
(***************************************************************************)
\* 1.0 in score units (five decimal places)
ScoreOne == 100000

\* the scalar a provider may answer (Sapling's score, the ai_probability of a
\* Groq completion): -0.1, 0.3, 0.7 and 1.2; nothing bounds what is received
ScoreSet == {-10000, 30000, 70000, 120000}

\* the score a Hugging Face label may carry: 0.9 and 1.2
LabelScoreSet == {90000, 120000}

\* registry._detectors after the five register() calls, in insertion order
RegisteredNames ==
  <<"sapling", "hf_roberta_coai", "hf_roberta_openai", "groq_stylistic", "groq_structural">>

\* the names an explicit request draws from: two registered, one not
RequestNames == {"sapling", "groq_stylistic", "no_such_detector"}

\* n in self._detectors
IsRegistered(n) == \E i \in DOMAIN RegisteredNames : RegisteredNames[i] = n

\* d.is_available(): bool(self._api_key) / bool(self._api_token)
is_available(name, keys) ==
  CASE name = "sapling" -> keys.sapling_api_key
    [] name \in {"hf_roberta_coai", "hf_roberta_openai"} -> keys.hf_api_token
    [] OTHER -> keys.groq_api_key

\* [name for name, d in self._detectors.items() if d.is_available()]
get_available(keys) ==
  LET available(n) == is_available(n, keys)
  IN SelectSeq(RegisteredNames, available)

\* mutant: the two boundaries exclusive
_verdict_from_score_exclusive(ai_score) ==
  IF ai_score * 10 > 7 * ScoreOne THEN "likely_ai"
  ELSE IF ai_score * 10 < 3 * ScoreOne THEN "likely_human"
  ELSE "uncertain"

\* BaseDetector._verdict_from_score: >= 0.7, <= 0.3
_verdict_from_score(ai_score) ==
  IF ai_score * 10 >= 7 * ScoreOne THEN "likely_ai"
  ELSE IF ai_score * 10 <= 3 * ScoreOne THEN "likely_human"
  ELSE "uncertain"

\* what detect() returns for a provider score
DetectionResult(name, ai_score) ==
  [type |-> "DetectionResult",
   detector |-> name,
   verdict |-> _verdict_from_score(ai_score),
   ai_score |-> ai_score,
   human_score |-> ScoreOne - ai_score]

\* JSON values as the detectors receive them: a list, or an object (a dict)
JList(xs) == [type |-> "list", value |-> xs]

JDict(d) == [type |-> "dict", value |-> d]

\* isinstance(x, list)
IsList(x) == x.type = "list"

\* a dict of one key
Entry(k, v) == <<[key |-> k, value |-> v]>>

LowerLetters ==
  <<"a", "b", "c", "d", "e", "f", "g", "h", "i", "j", "k", "l", "m",
    "n", "o", "p", "q", "r", "s", "t", "u", "v", "w", "x", "y", "z">>

UpperLetters ==
  <<"A", "B", "C", "D", "E", "F", "G", "H", "I", "J", "K", "L", "M",
    "N", "O", "P", "Q", "R", "S", "T", "U", "V", "W", "X", "Y", "Z">>

\* str.upper(), a string being the sequence of its characters
upper(s) ==
  [i \in DOMAIN s |->
     IF \E k \in DOMAIN LowerLetters : LowerLetters[k] = s[i]
     THEN UpperLetters[CHOOSE k \in DOMAIN LowerLetters : LowerLetters[k] = s[i]]
     ELSE s[i]]

\* sub in s
Contains(s, sub) ==
  \E k \in 0..(Len(s) - Len(sub)) : SubSeq(s, k + 1, k + Len(sub)) = sub

\* SaplingDetector.detect after the HTTP exchange: the score as received
sapling_detect(name, data) == DetectionResult(name, DictGet(data.value, "score", 0))

RECURSIVE label_loop(_, _)
\* the loop of _extract_ai_score over results, from item i: the score of the
\* first item whose label is recognised, None when the loop falls through
label_loop(results, i) ==
  IF i > Len(results) THEN None
  ELSE LET item == results[i].value
           label == upper(DictGet(item, "label", <<>>))
           score == DictGet(item, "score", 0)
       IN IF label = <<"F", "A", "K", "E">> THEN Some(score)
          ELSE IF label = <<"R", "E", "A", "L">> THEN Some(ScoreOne - score)
          ELSE IF label = <<"L", "A", "B", "E", "L", "_", "1">> THEN Some(score)
          ELSE IF label = <<"L", "A", "B", "E", "L", "_", "0">> THEN Some(ScoreOne - score)
          ELSE IF \/ Contains(label, <<"A", "I">>)
                  \/ Contains(label, <<"G", "E", "N", "E", "R", "A", "T", "E", "D">>)
                  \/ Contains(label, <<"F", "A", "K", "E">>)
               THEN Some(score)
          ELSE label_loop(results, i + 1)

\* HFRobertaDetector._extract_ai_score
_extract_ai_score(data) ==
  LET results == IF IsList(data) /\ data.value # <<>> /\ IsList(data.value[1])
                 THEN data.value[1]
                 ELSE data
  IN IF ~IsList(results) THEN ScoreOne \div 2
     ELSE LET hit == label_loop(results.value, 1)
          IN IF hit # None THEN hit.value
             ELSE IF results.value # <<>>
                  THEN DictGet(results.value[1].value, "score", ScoreOne \div 2)
             ELSE ScoreOne \div 2

\* HFRobertaDetector.detect after the HTTP exchange
hf_detect(name, data) == DetectionResult(name, _extract_ai_score(data))

Min(a, b) == IF a <= b THEN a ELSE b

Max(a, b) == IF a >= b THEN a ELSE b

\* what a failed detect() leaves in its task
DetectorException(name) == [type |-> "Exception", detector |-> name]

\* JSON scalars as json.loads gives them to the Groq detectors
JNum(n) == [type |-> "number", value |-> n]

JStr(s) == [type |-> "str", value |-> s]

JNull == [type |-> "null", value |-> 0]

\* a completion is the sequence of its tokens: whitespace, a code fence, a
\* word of plain text, a JSON punctuation mark, a number, a string, null
Tok(t, s, n) == [t |-> t, s |-> s, n |-> n]

Newline == Tok("ws", "\n", 0)

\* the three backquotes that open or close a code block
Fence == Tok("fence", "", 0)

Word(w) == Tok("word", w, 0)

Punct(c) == Tok("punct", c, 0)

NumTok(n) == Tok("num", "", n)

StrTok(s) == Tok("str", s, 0)

NullTok == Tok("null", "null", 0)

\* what the JSON decoder gives for a piece of text: json.loads raises
\* JSONDecodeError (ok false) or reads a value and stops at next
Decoded(v, next) == [ok |-> TRUE, value |-> v, next |-> next]

JSONDecodeError == [ok |-> FALSE, value |-> JNull, next |-> 0]

RECURSIVE parse_value(_, _), parse_items(_, _, _), parse_members(_, _, _)
\* the JSON decoder on the value that starts at token i
parse_value(toks, i) ==
  IF i > Len(toks) THEN JSONDecodeError
  ELSE CASE toks[i].t = "num" -> Decoded(JNum(toks[i].n), i + 1)
         [] toks[i].t = "str" -> Decoded(JStr(toks[i].s), i + 1)
         [] toks[i].t = "null" -> Decoded(JNull, i + 1)
         [] toks[i] = Punct("[") ->
              IF i + 1 <= Len(toks) /\ toks[i + 1] = Punct("]")
              THEN Decoded(JList(<<>>), i + 2)
              ELSE parse_items(toks, i + 1, <<>>)
         [] toks[i] = Punct("{") ->
              IF i + 1 <= Len(toks) /\ toks[i + 1] = Punct("}")
              THEN Decoded(JDict(<<>>), i + 2)
              ELSE parse_members(toks, i + 1, <<>>)
         [] OTHER -> JSONDecodeError

\* the items of an array from token i: a value, then "," or "]"
parse_items(toks, i, acc) ==
  LET v == parse_value(toks, i)
  IN IF ~v.ok \/ v.next > Len(toks) THEN JSONDecodeError
     ELSE IF toks[v.next] = Punct(",")
          THEN parse_items(toks, v.next + 1, Append(acc, v.value))
     ELSE IF toks[v.next] = Punct("]")
          THEN Decoded(JList(Append(acc, v.value)), v.next + 1)
     ELSE JSONDecodeError

\* the members of an object from token i: a string, ":", a value, then ","
\* or "}"; a repeated key keeps its last value
parse_members(toks, i, acc) ==
  IF i + 1 > Len(toks) \/ toks[i].t # "str" \/ toks[i + 1] # Punct(":")
  THEN JSONDecodeError
  ELSE LET v == parse_value(toks, i + 2)
       IN IF ~v.ok \/ v.next > Len(toks) THEN JSONDecodeError
          ELSE IF toks[v.next] = Punct(",")
               THEN parse_members(toks, v.next + 1, DictPut(acc, toks[i].s, v.value))
          ELSE IF toks[v.next] = Punct("}")
               THEN Decoded(JDict(DictPut(acc, toks[i].s, v.value)), v.next + 1)
          ELSE JSONDecodeError

\* json.loads(text): one value and nothing but whitespace around it, None
\* standing for JSONDecodeError
json_loads(text) ==
  LET not_ws(tok) == tok.t # "ws"
      toks == SelectSeq(text, not_ws)
      r == parse_value(toks, 1)
  IN IF r.ok /\ r.next = Len(toks) + 1 THEN Some(r.value) ELSE None

RECURSIVE lstrip(_)
lstrip(text) ==
  IF text # <<>> /\ text[1].t = "ws" THEN lstrip(Tail(text)) ELSE text

RECURSIVE rstrip(_)
rstrip(text) ==
  IF text # <<>> /\ text[Len(text)].t = "ws"
  THEN rstrip(SubSeq(text, 1, Len(text) - 1))
  ELSE text

\* text.strip()
strip(text) == rstrip(lstrip(text))

\* text.find(tok): the offset of the first tok, -1 when there is none
find(text, tok) ==
  IF \E i \in DOMAIN text : text[i] = tok
  THEN (CHOOSE i \in DOMAIN text : text[i] = tok /\ \A j \in 1..(i - 1) : text[j] # tok) - 1
  ELSE -1

\* text.rfind(tok): the offset of the last tok, -1 when there is none
rfind(text, tok) ==
  IF \E i \in DOMAIN text : text[i] = tok
  THEN (CHOOSE i \in DOMAIN text :
          text[i] = tok /\ \A j \in (i + 1)..Len(text) : text[j] # tok) - 1
  ELSE -1

\* "\n".join(text.split("\n")[1:]): the text after its first line
after_first_line(text) ==
  LET nl == find(text, Newline)
  IN IF nl < 0 THEN <<>> ELSE SubSeq(text, nl + 2, Len(text))

\* _GroqBaseDetector._parse_response
_parse_response(text) ==
  LET stripped == strip(text)
      unfenced ==
        IF stripped # <<>> /\ stripped[1] = Fence
        THEN LET rest == after_first_line(stripped)
             IN IF rest # <<>> /\ rest[Len(rest)] = Fence
                THEN SubSeq(rest, 1, Len(rest) - 1)
                ELSE rest
        ELSE stripped
      whole == json_loads(unfenced)
  IN IF whole # None THEN whole.value
     ELSE LET start == find(unfenced, Punct("{"))
              end == rfind(unfenced, Punct("}")) + 1
          IN IF start >= 0 /\ end > start
             THEN LET inner == json_loads(SubSeq(unfenced, start + 1, end))
                  IN IF inner # None THEN inner.value ELSE JDict(<<>>)
             ELSE JDict(<<>>)

\* bool(v) of a JSON value
Truthy(v) ==
  CASE v.type = "number" -> v.value # 0
    [] v.type = "str" -> v.value # ""
    [] v.type = "null" -> FALSE
    [] OTHER -> v.value # <<>>

\* parsed.get(k): None when the key is missing
get(parsed, k) == DictGet(parsed.value, k, JNull)

\* markers = parsed.get("markers_found") or parsed.get("patterns_found") or []
markers_of(parsed) ==
  IF Truthy(get(parsed, "markers_found")) THEN get(parsed, "markers_found")
  ELSE IF Truthy(get(parsed, "patterns_found")) THEN get(parsed, "patterns_found")
  ELSE JList(<<>>)

\* ", ".join(markers[:5]) goes through: a string, or a list whose first
\* five items are strings
markers_join(markers) ==
  \/ markers.type = "str"
  \/ /\ markers.type = "list"
     /\ \A i \in DOMAIN markers.value : i <= 5 => markers.value[i].type = "str"

\* lines 65-83 of detect go through on parsed: .get exists, min and max
\* compare numbers, both joins see strings only
detect_goes_through(parsed) ==
  /\ parsed.type = "dict"
  /\ DictGet(parsed.value, "ai_probability", JNum(ScoreOne \div 2)).type = "number"
  /\ Truthy(markers_of(parsed)) => markers_join(markers_of(parsed))
  /\ LET reasoning == DictGet(parsed.value, "reasoning", JStr(""))
     IN Truthy(reasoning) => reasoning.type = "str"

\* the note of a Groq result: the markers it names (the first five) and the
\* reasoning, both empty standing for "LLM-based analysis."
groq_note(parsed) ==
  LET markers == markers_of(parsed)
      reasoning == DictGet(parsed.value, "reasoning", JStr(""))
  IN [markers |-> IF markers.type = "list"
                  THEN SubSeq(markers.value, 1, Min(5, Len(markers.value)))
                  ELSE <<markers>>,
      reasoning |-> reasoning.value]

\* raw_text = response.choices[0].message.content or "{}"
raw_text(content) ==
  IF content = None \/ content = Some(<<>>)
  THEN <<Punct("{"), Punct("}")>>
  ELSE content.value

\* _GroqBaseDetector.detect on the content of the completion: the content or
\* "{}", parse, default 0.5, clamp; an exception when a line of it raises
groq_detect(name, content) ==
  LET parsed == _parse_response(raw_text(content))
  IN IF ~detect_goes_through(parsed) THEN DetectorException(name)
     ELSE LET ai_score ==
                DictGet(parsed.value, "ai_probability", JNum(ScoreOne \div 2)).value
          IN DetectionResult(name, Max(0, Min(ScoreOne, ai_score)))

\* d.detect(text) of the detector registered under name, on the body received
detect(name, body) ==
  CASE name = "sapling" -> sapling_detect(name, body)
    [] name \in {"hf_roberta_coai", "hf_roberta_openai"} -> hf_detect(name, body)
    [] OTHER -> groq_detect(name, body)

\* the labels a Hugging Face item may carry
HFLabels ==
  {<<"F", "a", "k", "e">>, <<"R", "e", "a", "l">>,
   <<"L", "A", "B", "E", "L", "_", "1">>, <<"L", "A", "B", "E", "L", "_", "0">>,
   <<"a", "i", "-", "g", "e", "n", "e", "r", "a", "t", "e", "d">>,
   <<"h", "u", "m", "a", "n">>}

\* {"label": l, "score": s}
HFItem(l, s) == JDict(Entry("label", l) \o Entry("score", s))

\* the bodies a Hugging Face model may answer with: an error object, empty
\* lists, one item flat or nested, an item without keys, and pairs whose
\* order decides the score
HFBodies ==
  {JDict(Entry("error", <<"l", "o", "a", "d", "i", "n", "g">>)), JList(<<>>), JList(<<JList(<<>>)>>),
   JList(<<JList(<<JDict(<<>>)>>)>>)}
  \cup {JList(<<JList(<<HFItem(l, s)>>)>>) : l \in HFLabels, s \in LabelScoreSet}
  \cup {JList(<<HFItem(l, 90000)>>) : l \in HFLabels}
  \cup {JList(<<JList(<<HFItem(<<"h", "u", "m", "a", "n">>, 120000), HFItem(l, 90000)>>)>>) :
          l \in HFLabels}
  \cup {JList(<<JList(<<HFItem(<<"R", "e", "a", "l">>, 90000),
                        HFItem(<<"F", "a", "k", "e">>, 120000)>>)>>)}

\* the bodies the provider behind a detector may answer with
ProviderBodies(name) ==
  CASE name = "sapling" -> {JDict(<<>>)} \cup {JDict(Entry("score", s)) : s \in ScoreSet}
    [] name \in {"hf_roberta_coai", "hf_roberta_openai"} -> HFBodies
    [] OTHER -> {None, Some(<<Punct("["), NumTok(70000), Punct("]")>>)}
                \cup {Some(<<Punct("{"), StrTok("ai_probability"), Punct(":"),
                              NumTok(s), Punct("}")>>) : s \in ScoreSet}

\* round(num / den, 4), in score units (no quotient of the model falls
\* exactly between two 4-place values)
Round4(num, den) == ((2 * num + 10 * den) \div (20 * den)) * 10

\* targets = detector_names or self.get_available(): None and [] are falsy
targets(detector_names, keys) ==
  IF detector_names = None \/ detector_names = Some(<<>>)
  THEN get_available(keys)
  ELSE detector_names.value

\* detectors = [self._detectors[n] for n in targets if n in self._detectors]
selected_detectors(detector_names, keys) ==
  SelectSeq(targets(detector_names, keys), IsRegistered)

\* mutant: gather without return_exceptions
return_exceptions_false == FALSE

\* asyncio.gather(*tasks, return_exceptions=True)
return_exceptions == TRUE

\* mutant: the wait ends as soon as one task has finished
gather_ready_first_completed(ts) == \E i \in DOMAIN ts : ts[i].status # "pending"

\* gather has an outcome: with return_exceptions once every task has finished;
\* without it also as soon as one task has failed
gather_ready(ts) ==
  \/ \A i \in DOMAIN ts : ts[i].status # "pending"
  \/ ~return_exceptions /\ \E i \in DOMAIN ts : ts[i].status = "failed"

\* gather raises (the first exception propagates) only without return_exceptions
gather_raises(ts) ==
  ~return_exceptions /\ \E i \in DOMAIN ts : ts[i].status = "failed"

\* isinstance(r, DetectionResult)
IsDetectionResult(r) == r.type = "DetectionResult"

\* _result_to_response: the scores rounded to 4 places
_result_to_response(r) ==
  [detector |-> r.detector,
   verdict |-> r.verdict,
   ai_score |-> Round4(r.ai_score, 1),
   human_score |-> Round4(r.human_score, 1)]

\* verdicts.count(v)
verdict_count(results, v) == Cardinality({i \in DOMAIN results : results[i].verdict = v})

RECURSIVE sum_ai_score(_, _)
\* sum(r.ai_score for r in results), from index i
sum_ai_score(results, i) ==
  IF i > Len(results) THEN 0 ELSE results[i].ai_score + sum_ai_score(results, i + 1)

\* mutant: the uncertain group left out of the majority
Max3_without_uncertain(a, b, c) == IF a >= b THEN a ELSE b

\* max(ai_count, human_count, verdicts.count("uncertain"))
Max3(a, b, c) == IF a >= b /\ a >= c THEN a ELSE IF b >= c THEN b ELSE c

\* mutant: any two different verdicts make the consensus mixed
_build_summary_mixed_on_any_split(results) ==
  IF results = <<>>
  THEN [consensus |-> "uncertain", agreement_ratio |-> 0, average_ai_score |-> 0]
  ELSE LET ai_count == verdict_count(results, "likely_ai")
           human_count == verdict_count(results, "likely_human")
           uncertain_count == verdict_count(results, "uncertain")
           total == Len(results)
           majority == Max3(ai_count, human_count, uncertain_count)
       IN [consensus |->
             IF ai_count = total THEN "likely_ai"
             ELSE IF human_count = total THEN "likely_human"
             ELSE IF uncertain_count = total THEN "uncertain"
             ELSE "mixed",
           agreement_ratio |-> Round4(majority * ScoreOne, total),
           average_ai_score |-> Round4(sum_ai_score(results, 1), total)]

\* mutant: no success gives the neutral average 0.5
_build_summary_neutral_average(results) ==
  IF results = <<>>
  THEN [consensus |-> "uncertain", agreement_ratio |-> 0, average_ai_score |-> ScoreOne \div 2]
  ELSE LET ai_count == verdict_count(results, "likely_ai")
           human_count == verdict_count(results, "likely_human")
           total == Len(results)
           majority == Max3(ai_count, human_count, verdict_count(results, "uncertain"))
       IN [consensus |->
             IF ai_count = total THEN "likely_ai"
             ELSE IF human_count = total THEN "likely_human"
             ELSE IF ai_count > 0 /\ human_count > 0 THEN "mixed"
             ELSE "uncertain",
           agreement_ratio |-> Round4(majority * ScoreOne, total),
           average_ai_score |-> Round4(sum_ai_score(results, 1), total)]

\* _build_summary: consensus, agreement ratio and average of the successes
_build_summary(results) ==
  IF results = <<>>
  THEN [consensus |-> "uncertain", agreement_ratio |-> 0, average_ai_score |-> 0]
  ELSE LET ai_count == verdict_count(results, "likely_ai")
           human_count == verdict_count(results, "likely_human")
           total == Len(results)
           majority == Max3(ai_count, human_count, verdict_count(results, "uncertain"))
       IN [consensus |->
             IF ai_count = total THEN "likely_ai"
             ELSE IF human_count = total THEN "likely_human"
             ELSE IF ai_count > 0 /\ human_count > 0 THEN "mixed"
             ELSE "uncertain",
           agreement_ratio |-> Round4(majority * ScoreOne, total),
           average_ai_score |-> Round4(sum_ai_score(results, 1), total)]

TextIdle ==
  /\ input = None
  /\ pc = "off"
  /\ scan_result = None
  /\ clean_result = None
  /\ reclean_result = None

\* a registry of the five detectors, the credentials configured or not, and
\* a call detect_all(text, detector_names)
InitDetect ==
  /\ api_keys \in [sapling_api_key : BOOLEAN, hf_api_token : BOOLEAN, groq_api_key : BOOLEAN]
  /\ request_detectors \in {None} \cup {Some(ns) : ns \in SeqsUpTo(RequestNames, MaxNames)}
  /\ dpc = "start"
  /\ detectors = <<>>
  /\ tasks = <<>>
  /\ raw_results = None
  /\ response = None
  /\ TextIdle
  /\ CompareIdle
  /\ ComponentIdle

\* detect_all up to the gather: the selection, and one task per selected detector
DetectAllStart ==
  /\ dpc = "start"
  /\ detectors' = selected_detectors(request_detectors, api_keys)
  /\ IF detectors' = <<>>
     THEN /\ tasks' = <<>>
          /\ raw_results' = Some(<<>>)
          /\ dpc' = "returned"
     ELSE /\ tasks' = [i \in DOMAIN detectors' |-> [status |-> "pending", outcome |-> None]]
          /\ raw_results' = None
          /\ dpc' = "gathering"
  /\ UNCHANGED <<api_keys, request_detectors, response, text_vars, compare_vars, component_vars>>

\* the provider answers the i-th detect(), which returns a DetectionResult
\* or raises on the body
TaskReturn(i) ==
  /\ dpc = "gathering"
  /\ tasks[i].status = "pending"
  /\ \E body \in ProviderBodies(detectors[i]) :
       LET outcome == detect(detectors[i], body)
       IN tasks' = [tasks EXCEPT ![i] =
                      [status |-> IF IsDetectionResult(outcome) THEN "done" ELSE "failed",
                       outcome |-> outcome]]
  /\ UNCHANGED <<api_keys, request_detectors, dpc, detectors, raw_results, response, text_vars, compare_vars, component_vars>>

\* the i-th detect() raises (transport error, HTTP status, timeout, bad body)
TaskRaise(i) ==
  /\ dpc = "gathering"
  /\ tasks[i].status = "pending"
  /\ tasks' = [tasks EXCEPT ![i] = [status |-> "failed",
                                    outcome |-> DetectorException(detectors[i])]]
  /\ UNCHANGED <<api_keys, request_detectors, dpc, detectors, raw_results, response, text_vars, compare_vars, component_vars>>

\* results = await asyncio.gather(*tasks, return_exceptions=True); return results
GatherDone ==
  /\ dpc = "gathering"
  /\ gather_ready(tasks)
  /\ IF gather_raises(tasks)
     THEN /\ dpc' = "raised"
          /\ raw_results' = raw_results
     ELSE /\ dpc' = "returned"
          /\ raw_results' = Some([i \in DOMAIN tasks |-> tasks[i].outcome])
  /\ UNCHANGED <<api_keys, request_detectors, detectors, tasks, response, text_vars, compare_vars, component_vars>>

\* the detect router on what detect_all returned: filter, convert, summarise
Respond ==
  /\ dpc = "returned"
  /\ LET successful == SelectSeq(raw_results.value, IsDetectionResult)
     IN response' = Some([results |-> [i \in DOMAIN successful |->
                                         _result_to_response(successful[i])],
                          summary |-> _build_summary(successful)])
  /\ dpc' = "responded"
  /\ UNCHANGED <<api_keys, request_detectors, detectors, tasks, raw_results, text_vars, compare_vars, component_vars>>

NextDetect ==
  \/ DetectAllStart
  \/ \E i \in DOMAIN tasks : TaskReturn(i)
  \/ \E i \in DOMAIN tasks : TaskRaise(i)
  \/ GatherDone
  \/ Respond

SpecDetect == InitDetect /\ [][NextDetect]_vars

\* some detector call that is in flight ends: it returns, raises or times out
TaskEnds == \E i \in DOMAIN tasks : TaskRaise(i) \/ TaskReturn(i)

\* the event loop runs every coroutine that can proceed, and every detector
\* call ends (each HTTP client carries a timeout)
SpecDetectFair ==
  /\ SpecDetect
  /\ WF_vars(DetectAllStart)
  /\ WF_vars(TaskEnds)
  /\ WF_vars(GatherDone)
  /\ WF_vars(Respond)

(***************************************************************************)
(* One Groq detector on the content of one completion.                     *)
(***************************************************************************)
\* {k: v}
Object1(k, v) == <<Punct("{"), StrTok(k), Punct(":")>> \o v \o <<Punct("}")>>

\* {k1: v1, k2: v2}
Object2(k1, v1, k2, v2) ==
  <<Punct("{"), StrTok(k1), Punct(":")>> \o v1
    \o <<Punct(","), StrTok(k2), Punct(":")>> \o v2 \o <<Punct("}")>>

\* [v]
Array1(v) == <<Punct("[")>> \o v \o <<Punct("]")>>

\* what the model may put where the JSON object is asked for: objects with
\* and without ai_probability, markers and reasoning of every type, values
\* that are no object, text that is no JSON
GroqPayloads ==
  {Object1("ai_probability", <<NumTok(n)>>) : n \in ScoreSet}
  \cup {<<Punct("{"), Punct("}")>>,
        Object2("ai_probability", <<NumTok(70000)>>,
                "markers_found", Array1(<<StrTok("hedging")>>)),
        Object2("ai_probability", <<NumTok(70000)>>, "reasoning", <<StrTok("formulaic")>>),
        Object1("patterns_found", Array1(<<StrTok("uniform")>>)),
        Object2("markers_found", <<Punct("["), Punct("]")>>,
                "patterns_found", Array1(<<StrTok("uniform")>>)),
        Object2("ai_probability", <<NumTok(30000)>>, "ai_probability", <<NumTok(70000)>>),
        Object2("ai_probability", <<NumTok(30000)>>, "markers_found", <<StrTok("abc")>>),
        Array1(<<NumTok(70000)>>), <<NumTok(70000)>>, <<NullTok>>, <<StrTok("likely ai")>>,
        Object1("ai_probability", <<StrTok("high")>>),
        Object1("ai_probability", <<NullTok>>),
        Object1("ai_probability", Object1("value", <<NumTok(30000)>>)),
        Object2("ai_probability", <<NumTok(30000)>>, "markers_found", Array1(<<NumTok(30000)>>)),
        Object2("ai_probability", <<NumTok(30000)>>, "markers_found", <<NumTok(30000)>>),
        Object2("ai_probability", <<NumTok(30000)>>, "reasoning", <<NumTok(30000)>>),
        <<Punct("{"), StrTok("ai_probability"), Punct(":"), NumTok(70000)>>,
        <<Word("Sure"), Word("thing")>>,
        <<Punct("}"), Punct("{")>>}

\* how a payload may come: bare, in a code block (closed or not, with a
\* language tag or not, on one line), amid stray text, amid stray braces
Wrapped(p) ==
  {p,
   <<Fence, Newline>> \o p \o <<Newline, Fence>>,
   <<Fence, Word("json"), Newline>> \o p \o <<Newline, Fence, Newline>>,
   <<Fence, Newline>> \o p,
   <<Fence>> \o p \o <<Fence>>,
   <<Word("Here")>> \o p,
   <<Newline, Word("Here"), Newline>> \o p \o <<Newline, Word("Done")>>,
   <<Punct("{")>> \o p,
   p \o <<Punct("}")>>}

\* response.choices[0].message.content: None, empty, or a text
GroqContents ==
  {None, Some(<<>>)} \cup {Some(text) : text \in UNION {Wrapped(p) : p \in GroqPayloads}}

GroqNames == {"groq_stylistic", "groq_structural"}

\* a Groq detector and the completion its provider answers with
InitGroq ==
  /\ groq_call \in [name : GroqNames, content : GroqContents]
  /\ gpc = "start"
  /\ groq_result = None
  /\ TextIdle
  /\ DetectIdle
  /\ CompareIdle
  /\ RegistryIdle
  /\ ExperimentIdle

\* detect() from the completion on: the outcome, and the note of a result
GroqDetect ==
  /\ gpc = "start"
  /\ LET outcome == groq_detect(groq_call.name, groq_call.content)
     IN groq_result' =
          Some([outcome |-> outcome,
                note |-> IF outcome.type = "DetectionResult"
                         THEN Some(groq_note(_parse_response(raw_text(groq_call.content))))
                         ELSE None])
  /\ gpc' = "returned"
  /\ UNCHANGED <<groq_call, text_vars, detect_vars, compare_vars, registry_vars,
                 experiment_vars>>

NextGroq == GroqDetect

SpecGroq == InitGroq /\ [][NextGroq]_vars

(***************************************************************************)
(* The module global _registry, get_registry and _init_registry.           *)
(***************************************************************************)
\* the fields class Settings declares
SettingsFields ==
  {"app_name", "app_version", "debug", "host", "port", "cors_origins",
   "sapling_api_key", "hf_api_token", "max_text_length_scan",
   "max_text_length_detect", "rate_limit_rpm", "sapling_daily_limit"}

\* the register() calls of _init_registry in order: the detector registered
\* and the attribute of settings its constructor argument reads
Registrations ==
  <<[name |-> "sapling", attr |-> "sapling_api_key"],
    [name |-> "hf_roberta_coai", attr |-> "hf_api_token"],
    [name |-> "hf_roberta_openai", attr |-> "hf_api_token"],
    [name |-> "groq_stylistic", attr |-> "groq_api_key"],
    [name |-> "groq_structural", attr |-> "groq_api_key"]>>

\* DetectorRegistry.register: self._detectors[detector.name] = detector
register(registry, detector) ==
  [registry EXCEPT !._detectors = DictPut(@, detector.name, detector)]

\* reading an attribute that Settings does not declare
AttributeError == [type |-> "AttributeError"]

RECURSIVE registration_loop(_, _, _)
\* the register() calls from the i-th on: the registry filled, or the
\* AttributeError of the first attribute that settings lacks
registration_loop(values, i, registry) ==
  IF i > Len(Registrations) THEN registry
  ELSE IF Registrations[i].attr \notin SettingsFields THEN AttributeError
  ELSE registration_loop(
         values, i + 1,
         register(registry, [name |-> Registrations[i].name,
                             key |-> values[Registrations[i].attr]]))

\* _init_registry: the id-th DetectorRegistry() of the process, then the
\* five register() calls
_init_registry(values, id) ==
  registration_loop(values, 1, [type |-> "DetectorRegistry", id |-> id, _detectors |-> <<>>])

\* the request handlers of the process
Callers == 1..MaxCallers

\* the process after import: _registry is None, the credentials are set in
\* the environment or left at their default ""
InitRegistry ==
  /\ settings \in [sapling_api_key : {"", "key"}, hf_api_token : {"", "key"}]
  /\ _registry = None
  /\ init_runs = 0
  /\ got = [c \in Callers |-> <<>>]
  /\ TextIdle
  /\ DetectIdle
  /\ CompareIdle
  /\ GroqIdle
  /\ ExperimentIdle

\* caller c runs get_registry(): no await in it, so the event loop runs the
\* test, _init_registry and the assignment as one step
GetRegistry(c) ==
  /\ Len(got[c]) < MaxCalls
  /\ IF _registry = None
     THEN LET built == _init_registry(settings, init_runs + 1)
          IN /\ init_runs' = init_runs + 1
             /\ _registry' = IF built.type = "AttributeError" THEN _registry ELSE Some(built)
             /\ got' = [got EXCEPT ![c] = Append(@, built)]
     ELSE /\ got' = [got EXCEPT ![c] = Append(@, _registry.value)]
          /\ UNCHANGED <<_registry, init_runs>>
  /\ UNCHANGED <<settings, text_vars, detect_vars, compare_vars, groq_vars, experiment_vars>>

NextRegistry == \E c \in Callers : GetRegistry(c)

SpecRegistry == InitRegistry /\ [][NextRegistry]_vars

(***************************************************************************)
(* scripts/run_experiment.py: detect_hf and one sample of run_experiment.  *)
(***************************************************************************)
\* ROBERTA_MODELS, in insertion order
ROBERTA_MODELS == <<"roberta_coai", "roberta_openai">>

\* range(3)
attempt_range == 3

\* return -1.0  # Failed
Failed == 0 - ScoreOne

\* the statuses after which detect_hf goes round its loop again
RetryStatuses == {503, 429}

RECURSIVE experiment_label_loop(_, _)
\* the loop of the script's _extract_ai_score from item i on
experiment_label_loop(results, i) ==
  IF i > Len(results) THEN ScoreOne \div 2
  ELSE LET item == results[i].value
           label == upper(DictGet(item, "label", <<>>))
           score == DictGet(item, "score", 0)
       IN IF label \in {<<"F", "A", "K", "E">>, <<"L", "A", "B", "E", "L", "_", "1">>}
          THEN score
          ELSE IF label \in {<<"R", "E", "A", "L">>, <<"L", "A", "B", "E", "L", "_", "0">>}
               THEN ScoreOne - score
          ELSE experiment_label_loop(results, i + 1)

\* the script's _extract_ai_score
experiment_extract_ai_score(data) ==
  LET results == IF IsList(data) /\ data.value # <<>> /\ IsList(data.value[1])
                 THEN data.value[1]
                 ELSE data
  IN IF ~IsList(results) THEN ScoreOne \div 2
     ELSE experiment_label_loop(results.value, 1)

\* resp.raise_for_status() raises
raises_for_status(status) == status >= 400

\* resp.json().get(...) of the 503 branch raises: the body is no JSON object
loading_body_raises(resp) == resp.status = 503 /\ resp.body.type # "dict"

\* mutant: every score is kept
keeps_score_always(score) == TRUE

\* if score >= 0
keeps_score(score) == score >= 0

\* what the Inference API may answer: a classification (three labels, a score
\* above 1 among them), an object without labels, the model loading with or
\* without an estimated time or with a body that is no object, a rate limit,
\* a server error
HFResponses ==
  <<[status |-> 200, body |-> JList(<<JList(<<HFItem(<<"F", "a", "k", "e">>, 90000)>>)>>)],
    [status |-> 200, body |-> JList(<<JList(<<HFItem(<<"R", "e", "a", "l">>, 90000)>>)>>)],
    [status |-> 200,
     body |-> JList(<<JList(<<HFItem(<<"L", "A", "B", "E", "L", "_", "0">>, 120000)>>)>>)],
    [status |-> 200, body |-> JDict(<<>>)],
    [status |-> 503, body |-> JDict(Entry("estimated_time", 20))],
    [status |-> 503, body |-> JDict(<<>>)],
    [status |-> 503, body |-> JList(<<>>)],
    [status |-> 429, body |-> JDict(<<>>)],
    [status |-> 500, body |-> JDict(<<>>)]>>

\* no detect_hf call of the iteration has returned yet
NoScores == [ph \in {"baseline", "injected"} |-> [d \in DOMAIN ROBERTA_MODELS |-> None]]

\* run_experiment at one sample, about to score the original text
InitExperiment ==
  /\ epc = "attempt"
  /\ phase = "baseline"
  /\ det_index = 1
  /\ attempt = 0
  /\ responses = <<>>
  /\ scores = NoScores
  /\ baseline_scores = <<>>
  /\ injected_scores = <<>>
  /\ char_results = <<>>
  /\ TextIdle
  /\ DetectIdle
  /\ CompareIdle
  /\ GroqIdle
  /\ RegistryIdle

\* detect_hf enters an iteration of its loop: resp = await client.post(...)
PostRequest ==
  /\ epc = "attempt"
  /\ epc' = "posted"
  /\ UNCHANGED <<phase, det_index, attempt, responses, scores, baseline_scores,
                 injected_scores, char_results>>
  /\ UNCHANGED <<text_vars, detect_vars, compare_vars, groq_vars, registry_vars>>

\* the score detect_hf has returned reaches run_experiment: kept under
\* det_name when it is not negative
score_returned(score) ==
  /\ scores' = [scores EXCEPT ![phase][det_index] = Some(score)]
  /\ IF phase = "baseline"
     THEN /\ baseline_scores' =
               IF keeps_score(score)
               THEN DictPut(baseline_scores, ROBERTA_MODELS[det_index], score)
               ELSE baseline_scores
          /\ UNCHANGED injected_scores
     ELSE /\ injected_scores' =
               IF keeps_score(score)
               THEN DictPut(injected_scores, ROBERTA_MODELS[det_index], score)
               ELSE injected_scores
          /\ UNCHANGED baseline_scores
  /\ epc' = "returned"

\* the response arrives: 503 and 429 sleep and go round again, or end the
\* loop and return -1.0; another error status, or a 503 whose body has no
\* get, raises out of run_experiment; anything else returns the extracted
\* score
Receive ==
  /\ epc = "posted"
  /\ \E k \in DOMAIN HFResponses :
       LET resp == HFResponses[k]
       IN
       /\ responses' = Append(responses, resp)
       /\ IF loading_body_raises(resp)
          THEN /\ epc' = "raised"
               /\ UNCHANGED <<attempt, scores, baseline_scores, injected_scores>>
          ELSE IF resp.status \in RetryStatuses
          THEN /\ attempt' = attempt + 1
               /\ IF attempt + 1 < attempt_range
                  THEN /\ epc' = "attempt"
                       /\ UNCHANGED <<scores, baseline_scores, injected_scores>>
                  ELSE score_returned(Failed)
          ELSE IF raises_for_status(resp.status)
          THEN /\ epc' = "raised"
               /\ UNCHANGED <<attempt, scores, baseline_scores, injected_scores>>
          ELSE /\ score_returned(experiment_extract_ai_score(resp.body))
               /\ UNCHANGED attempt
  /\ UNCHANGED <<phase, det_index, char_results>>
  /\ UNCHANGED <<text_vars, detect_vars, compare_vars, groq_vars, registry_vars>>

RECURSIVE delta_loop(_, _, _, _)
\* for det_name in ROBERTA_MODELS: a delta when both maps hold det_name
delta_loop(i, baseline, injected, acc) ==
  IF i > Len(ROBERTA_MODELS) THEN acc
  ELSE LET det_name == ROBERTA_MODELS[i]
       IN IF DictHas(baseline, det_name) /\ DictHas(injected, det_name)
          THEN delta_loop(i + 1, baseline, injected,
                          Append(acc, [detector |-> det_name,
                                       baseline |-> DictGet(baseline, det_name, 0),
                                       injected |-> DictGet(injected, det_name, 0),
                                       delta |-> DictGet(injected, det_name, 0)
                                                   - DictGet(baseline, det_name, 0)]))
          ELSE delta_loop(i + 1, baseline, injected, acc)

\* after asyncio.sleep(0.5): the next model, the injected text after the
\* original one, the deltas after both
NextCall ==
  /\ epc = "returned"
  /\ IF det_index < Len(ROBERTA_MODELS)
     THEN /\ det_index' = det_index + 1
          /\ epc' = "attempt"
          /\ UNCHANGED <<phase, char_results>>
     ELSE IF phase = "baseline"
     THEN /\ phase' = "injected"
          /\ det_index' = 1
          /\ epc' = "attempt"
          /\ UNCHANGED char_results
     ELSE /\ char_results' = delta_loop(1, baseline_scores, injected_scores, <<>>)
          /\ epc' = "done"
          /\ UNCHANGED <<phase, det_index>>
  /\ attempt' = 0
  /\ responses' = <<>>
  /\ UNCHANGED <<scores, baseline_scores, injected_scores>>
  /\ UNCHANGED <<text_vars, detect_vars, compare_vars, groq_vars, registry_vars>>

NextExperiment == PostRequest \/ Receive \/ NextCall

SpecExperiment == InitExperiment /\ [][NextExperiment]_vars

(***************************************************************************)
(* The comparator (comparison.py) and the compare router: scan, clean, the *)
(* two detector batches, compare_results, build_insight, the response.     *)
(***************************************************************************)
RECURSIVE cleaned_by_name(_, _, _)
\* {r.detector: r for r in cleaned_results if isinstance(r, DetectionResult)},
\* from index i: a later result of the same detector replaces an earlier one
cleaned_by_name(cleaned_results, i, acc) ==
  IF i > Len(cleaned_results) THEN acc
  ELSE cleaned_by_name(cleaned_results, i + 1,
         IF IsDetectionResult(cleaned_results[i])
         THEN DictPut(acc, cleaned_results[i].detector, cleaned_results[i])
         ELSE acc)

\* mutant: the delta taken as original minus cleaned
compare_step_delta_reversed(acc, orig, by_name) ==
  IF ~IsDetectionResult(orig) THEN acc
  ELSE IF ~DictHas(by_name, orig.detector) THEN acc
  ELSE LET cleaned == DictGet(by_name, orig.detector, None)
           delta == orig.ai_score - cleaned.ai_score
           score_deltas == Append(acc.score_deltas,
                                  [detector |-> orig.detector, delta |-> Round4(delta, 1)])
       IN IF orig.verdict # cleaned.verdict
          THEN [changed_verdicts |->
                  Append(acc.changed_verdicts,
                         [detector |-> orig.detector,
                          before_verdict |-> orig.verdict,
                          after_verdict |-> cleaned.verdict,
                          before_ai_score |-> Round4(orig.ai_score, 1),
                          after_ai_score |-> Round4(cleaned.ai_score, 1),
                          score_delta |-> Round4(delta, 1)]),
                score_deltas |-> score_deltas]
          ELSE [changed_verdicts |-> acc.changed_verdicts, score_deltas |-> score_deltas]

\* one round of the loop of compare_results, on the original result orig
compare_step(acc, orig, by_name) ==
  IF ~IsDetectionResult(orig) THEN acc
  ELSE IF ~DictHas(by_name, orig.detector) THEN acc
  ELSE LET cleaned == DictGet(by_name, orig.detector, None)
           delta == cleaned.ai_score - orig.ai_score
           score_deltas == Append(acc.score_deltas,
                                  [detector |-> orig.detector, delta |-> Round4(delta, 1)])
       IN IF orig.verdict # cleaned.verdict
          THEN [changed_verdicts |->
                  Append(acc.changed_verdicts,
                         [detector |-> orig.detector,
                          before_verdict |-> orig.verdict,
                          after_verdict |-> cleaned.verdict,
                          before_ai_score |-> Round4(orig.ai_score, 1),
                          after_ai_score |-> Round4(cleaned.ai_score, 1),
                          score_delta |-> Round4(delta, 1)]),
                score_deltas |-> score_deltas]
          ELSE [changed_verdicts |-> acc.changed_verdicts, score_deltas |-> score_deltas]

RECURSIVE compare_loop(_, _, _, _)
\* for orig in original_results, from index i
compare_loop(original_results, i, acc, by_name) ==
  IF i > Len(original_results) THEN acc
  ELSE compare_loop(original_results, i + 1,
                    compare_step(acc, original_results[i], by_name), by_name)

\* compare_results: (changed_verdicts, score_deltas)
compare_results(original_results, cleaned_results) ==
  compare_loop(original_results, 1,
               [changed_verdicts |-> <<>>, score_deltas |-> <<>>],
               cleaned_by_name(cleaned_results, 1, <<>>))

\* abs
Abs(x) == IF x < 0 THEN -x ELSE x

RECURSIVE sum_abs_delta(_, _)
\* sum(abs(d["delta"]) for d in score_deltas), from index i
sum_abs_delta(score_deltas, i) ==
  IF i > Len(score_deltas) THEN 0
  ELSE Abs(score_deltas[i].delta) + sum_abs_delta(score_deltas, i + 1)

\* mutant: the chars_removed test made after the detector tests
build_insight_detectors_first(chars_removed, changed_verdicts, score_deltas) ==
  IF Len(score_deltas) = 0
  THEN [insight |-> "no_detectors", assessment |-> "inconclusive"]
  ELSE IF Len(changed_verdicts) > 0
  THEN [insight |-> "changed_verdict", assessment |-> "byte_pattern_dependent"]
  ELSE IF chars_removed = 0
  THEN [insight |-> "identical", assessment |-> "inconclusive"]
  ELSE IF 20 * sum_abs_delta(score_deltas, 1) > ScoreOne * Len(score_deltas)
  THEN [insight |-> "shifted", assessment |-> "byte_pattern_dependent"]
  ELSE [insight |-> "stable", assessment |-> "content_based"]

\* mutant: no branch for a changed verdict, the mean delta alone decides
build_insight_delta_only(chars_removed, changed_verdicts, score_deltas) ==
  IF chars_removed = 0
  THEN [insight |-> "identical", assessment |-> "inconclusive"]
  ELSE IF Len(score_deltas) = 0
  THEN [insight |-> "no_detectors", assessment |-> "inconclusive"]
  ELSE IF 20 * sum_abs_delta(score_deltas, 1) > ScoreOne * Len(score_deltas)
  THEN [insight |-> "shifted", assessment |-> "byte_pattern_dependent"]
  ELSE [insight |-> "stable", assessment |-> "content_based"]

\* build_insight: the branch the insight text comes from, and the assessment;
\* avg_delta > 0.05 is sum / total_detectors > ScoreOne / 20
build_insight(chars_removed, changed_verdicts, score_deltas) ==
  IF chars_removed = 0
  THEN [insight |-> "identical", assessment |-> "inconclusive"]
  ELSE LET changed_count == Len(changed_verdicts)
           total_detectors == Len(score_deltas)
       IN IF total_detectors = 0
          THEN [insight |-> "no_detectors", assessment |-> "inconclusive"]
          ELSE IF changed_count > 0
          THEN [insight |-> "changed_verdict", assessment |-> "byte_pattern_dependent"]
          ELSE IF 20 * sum_abs_delta(score_deltas, 1) > ScoreOne * total_detectors
          THEN [insight |-> "shifted", assessment |-> "byte_pattern_dependent"]
          ELSE [insight |-> "stable", assessment |-> "content_based"]

\* the scalar a provider may answer in a compare run: 0.5, 0.55004, 0.66, 0.7
CompareScoreSet == {50000, 55004, 66000, 70000}

\* the bodies the provider behind a detector may answer with in a compare run
CompareBodies(name) ==
  CASE name = "sapling" -> {JDict(Entry("score", s)) : s \in CompareScoreSet}
    [] name \in {"hf_roberta_coai", "hf_roberta_openai"} ->
         {JList(<<JList(<<HFItem(<<"F", "a", "k", "e">>, s)>>)>>) : s \in CompareScoreSet}
    [] OTHER -> {Some(<<Punct("{"), StrTok("ai_probability"), Punct(":"),
                        NumTok(s), Punct("}")>>) : s \in CompareScoreSet}

\* the texts of a compare request: clean, with a zero-width space, with an
\* em dash, with two zero-width spaces, a curly quote and two em dashes
CompareTexts == {<<97>>, <<8203, 97>>, <<8212, 97>>,
                 <<8203, 8212, 8220, 8203, 8212>>}

\* the credentials in a compare run: none, or Sapling's only
CompareKeys ==
  {[sapling_api_key |-> k, hf_api_token |-> FALSE, groq_api_key |-> FALSE] : k \in BOOLEAN}

\* CompareRequest.detectors
CompareRequests ==
  {None, Some(<<>>), Some(<<"sapling">>),
   Some(<<"sapling", "groq_stylistic">>), Some(<<"groq_stylistic", "sapling">>),
   Some(<<"sapling", "sapling">>), Some(<<"no_such_detector", "groq_stylistic">>)}

BatchNames == {"orig", "clean"}

\* the calls detect_all of batch b has created
BatchTasks(b) == IF cpc = "detecting" THEN DOMAIN batches[b].tasks ELSE {}

\* a compare request on a registry of the five detectors
InitCompare ==
  /\ input \in [text : CompareTexts, smart : BOOLEAN]
  /\ pc = "start"
  /\ scan_result = None
  /\ clean_result = None
  /\ reclean_result = None
  /\ api_keys \in CompareKeys
  /\ request_detectors \in CompareRequests
  /\ dpc = "off"
  /\ detectors = <<>>
  /\ tasks = <<>>
  /\ raw_results = None
  /\ response = None
  /\ cpc = "start"
  /\ batches = None
  /\ compare_response = None
  /\ ComponentIdle

\* orig_task, clean_task and the gather that starts both detect_all calls
CompareGather ==
  /\ pc = "cleaned"
  /\ cpc = "start"
  /\ batches' = [b \in BatchNames |->
                   [pc |-> "start",
                    text |-> IF b = "orig" THEN input.text ELSE clean_result.cleaned_text,
                    detectors |-> <<>>,
                    tasks |-> <<>>,
                    raw |-> None]]
  /\ cpc' = "detecting"
  /\ UNCHANGED <<text_vars, detect_vars, compare_response, component_vars>>

\* detect_all of batch b up to its gather
BatchStart(b) ==
  /\ cpc = "detecting"
  /\ batches[b].pc = "start"
  /\ LET ds == selected_detectors(request_detectors, api_keys)
     IN batches' = [batches EXCEPT ![b] =
                      IF ds = <<>>
                      THEN [@ EXCEPT !.pc = "returned", !.raw = Some(<<>>)]
                      ELSE [@ EXCEPT !.pc = "gathering",
                                     !.detectors = ds,
                                     !.tasks = [i \in DOMAIN ds |->
                                                  [status |-> "pending", outcome |-> None]]]]
  /\ UNCHANGED <<text_vars, detect_vars, cpc, compare_response, component_vars>>

\* the provider answers the i-th detect() of batch b, which returns a
\* DetectionResult or raises on the body
BatchTaskReturn(b, i) ==
  /\ cpc = "detecting"
  /\ batches[b].pc = "gathering"
  /\ batches[b].tasks[i].status = "pending"
  /\ \E body \in CompareBodies(batches[b].detectors[i]) :
       LET outcome == detect(batches[b].detectors[i], body)
       IN batches' = [batches EXCEPT ![b].tasks[i] =
                        [status |-> IF IsDetectionResult(outcome) THEN "done" ELSE "failed",
                         outcome |-> outcome]]
  /\ UNCHANGED <<text_vars, detect_vars, cpc, compare_response, component_vars>>

\* mutant: a call that raises is made again
BatchTaskRaise_retried(b, i) ==
  /\ cpc = "detecting"
  /\ batches[b].pc = "gathering"
  /\ batches[b].tasks[i].status = "pending"
  /\ batches[b].tasks[i].outcome = None
  /\ batches' = [batches EXCEPT ![b].tasks[i] =
                   [status |-> "pending",
                    outcome |-> DetectorException(batches[b].detectors[i])]]
  /\ UNCHANGED <<text_vars, detect_vars, cpc, compare_response, component_vars>>

\* the i-th detect() of batch b raises
BatchTaskRaise(b, i) ==
  /\ cpc = "detecting"
  /\ batches[b].pc = "gathering"
  /\ batches[b].tasks[i].status = "pending"
  /\ batches' = [batches EXCEPT ![b].tasks[i] =
                   [status |-> "failed",
                    outcome |-> DetectorException(batches[b].detectors[i])]]
  /\ UNCHANGED <<text_vars, detect_vars, cpc, compare_response, component_vars>>

\* the gather of batch b completes and its detect_all returns
BatchGatherDone(b) ==
  /\ cpc = "detecting"
  /\ batches[b].pc = "gathering"
  /\ gather_ready(batches[b].tasks)
  /\ batches' = [batches EXCEPT ![b] =
                   IF gather_raises(batches[b].tasks)
                   THEN [@ EXCEPT !.pc = "raised"]
                   ELSE [@ EXCEPT !.pc = "returned",
                                  !.raw = Some([i \in DOMAIN batches[b].tasks |->
                                                  batches[b].tasks[i].outcome])]]
  /\ UNCHANGED <<text_vars, detect_vars, cpc, compare_response, component_vars>>

\* DetectResponse(results=[...], summary=_build_summary(...))
DetectResponse(successful) ==
  [results |-> [i \in DOMAIN successful |-> _result_to_response(successful[i])],
   summary |-> _build_summary(successful)]

\* mutant: the smart characters are left out of the ScanResponse
_scan_to_response_without_smart(result) ==
  [has_invisible_chars |-> result.has_invisible_chars,
   total_invisible_count |-> result.total_invisible_count,
   char_count |-> result.char_count,
   categories |-> result.categories,
   findings |-> [i \in DOMAIN result.findings |->
                   [char |-> result.findings[i].char,
                    name |-> result.findings[i].name,
                    category |-> result.findings[i].category,
                    threat_level |-> result.findings[i].threat_level,
                    count |-> result.findings[i].count,
                    positions |-> result.findings[i].positions]],
   smart_chars |-> None,
   context |-> [likely_source |-> result.context.likely_source,
                explanation |-> result.context.explanation]]

\* _scan_to_response: the ScanResult copied field by field into a ScanResponse
_scan_to_response(result) ==
  [has_invisible_chars |-> result.has_invisible_chars,
   total_invisible_count |-> result.total_invisible_count,
   char_count |-> result.char_count,
   categories |-> result.categories,
   findings |-> [i \in DOMAIN result.findings |->
                   [char |-> result.findings[i].char,
                    name |-> result.findings[i].name,
                    category |-> result.findings[i].category,
                    threat_level |-> result.findings[i].threat_level,
                    count |-> result.findings[i].count,
                    positions |-> result.findings[i].positions]],
   smart_chars |-> IF result.smart_chars.is_none
                   THEN None
                   ELSE Some([i \in DOMAIN result.smart_chars.value |->
                                [char |-> result.smart_chars.value[i].char,
                                 name |-> result.smart_chars.value[i].name,
                                 count |-> result.smart_chars.value[i].count,
                                 replacement |-> result.smart_chars.value[i].replacement]]),
   context |-> [likely_source |-> result.context.likely_source,
                explanation |-> result.context.explanation]]

\* compare after both detect_all calls have returned: filter, compare,
\* build the insight and the response
CompareRespond ==
  /\ cpc = "detecting"
  /\ \A b \in BatchNames : batches[b].pc = "returned"
  /\ LET orig_successful == SelectSeq(batches["orig"].raw.value, IsDetectionResult)
         clean_successful == SelectSeq(batches["clean"].raw.value, IsDetectionResult)
         compared == compare_results(orig_successful, clean_successful)
         built == build_insight(clean_result.chars_removed,
                                compared.changed_verdicts, compared.score_deltas)
     IN compare_response' =
          Some([scan |-> _scan_to_response(scan_result),
                original_detection |-> DetectResponse(orig_successful),
                cleaned_detection |-> DetectResponse(clean_successful),
                comparison |->
                  [chars_removed |-> clean_result.chars_removed,
                   detectors_that_changed_verdict |-> compared.changed_verdicts,
                   score_deltas |-> compared.score_deltas,
                   insight |-> built.insight,
                   reliability_assessment |-> built.assessment]])
  /\ cpc' = "responded"
  /\ UNCHANGED <<text_vars, detect_vars, batches, component_vars>>

NextCompare ==
  \/ Scan
  \/ Clean
  \/ CompareGather
  \/ \E b \in BatchNames : BatchStart(b)
  \/ \E b \in BatchNames : \E i \in BatchTasks(b) : BatchTaskReturn(b, i)
  \/ \E b \in BatchNames : \E i \in BatchTasks(b) : BatchTaskRaise(b, i)
  \/ \E b \in BatchNames : BatchGatherDone(b)
  \/ CompareRespond

SpecCompare == InitCompare /\ [][NextCompare]_vars

\* the two endpoints that call detectors: a detect request or a compare request
InitEndpoints == InitDetect \/ InitCompare

NextEndpoints == NextDetect \/ NextCompare

SpecEndpoints == InitEndpoints /\ [][NextEndpoints]_vars

(***************************************************************************)
(* Properties of the scanner and the cleaner.  The counts below are taken  *)
(* from the request's text directly, not from the loops of scan and clean. *)
(***************************************************************************)
Scanned == pc \in {"scanned", "cleaned", "recleaned"}

Cleaned == pc \in {"cleaned", "recleaned"}

\* the number of occurrences of code point c in text t
Occurrences(t, c) == Cardinality({i \in DOMAIN t : t[i] = c})

\* the 0-based offsets of code point c in text t
Offsets(t, c) == {i - 1 : i \in {j \in DOMAIN t : t[j] = c}}

\* the number of characters of t that are members of S
MemberCount(t, S) == Cardinality({i \in DOMAIN t : t[i] \in S})

\* the distinct members of S present in t
Present(t, S) == {t[i] : i \in DOMAIN t} \cap S

\* the sum of the count fields of a list of findings or removals
CountTotal(xs) == Cardinality(UNION {{i} \X (1..xs[i].count) : i \in DOMAIN xs})

\* the code points clean consumes: the invisible ones, and the smart ones under the flag
Consumed(n) == IF n THEN InvisibleSet \cup SmartSet ELSE InvisibleSet

\* C1: cleaning is idempotent: cleaning the cleaned text again, with the same
\* flag, reports chars_removed = 0, an empty removals list, and a cleaned_text
\* equal to its input.
C1_CleanIdempotent ==
  pc = "recleaned" =>
    /\ reclean_result.chars_removed = 0
    /\ reclean_result.removals = <<>>
    /\ reclean_result.cleaned_text = clean_result.cleaned_text

C1_Witness ==
  /\ pc = "recleaned"
  /\ input.smart
  /\ Present(input.text, InvisibleSet) # {}
  /\ Present(input.text, SmartSet) # {}
  /\ clean_result.cleaned_text # <<>>

\* what the claim says one character of the input becomes
ExpectedPiece(c, n) ==
  IF c \in InvisibleSet THEN <<>>
  ELSE IF c \in SmartSet /\ n THEN SMART_CHARS[c].replacement
  ELSE <<c>>

\* where the piece of the character at index i starts in the output: the
\* total length of the pieces before it (a piece has at most 3 characters)
PieceStart(t, n, i) ==
  Cardinality({<<j, k>> \in (1..(i - 1)) \X (1..3) : k <= Len(ExpectedPiece(t[j], n))})

\* C2: cleaned_text is the input with every invisible character dropped, every
\* smart character replaced by its ASCII replacement (em dash -> "--",
\* ellipsis -> "...") when and only when the flag is true, and every other
\* character copied through in its original order; a text made only of
\* invisible characters yields the empty string.
C2_CleanedText ==
  Cleaned =>
    LET t == input.text
        n == input.smart
        out == clean_result.cleaned_text
    IN /\ Len(out) = PieceStart(t, n, Len(t) + 1)
       /\ \A i \in DOMAIN t : \A k \in 1..Len(ExpectedPiece(t[i], n)) :
            out[PieceStart(t, n, i) + k] = ExpectedPiece(t[i], n)[k]
       /\ (t = <<8212>> /\ n) => out = <<45, 45>>
       /\ (t = <<8230>> /\ n) => out = <<46, 46, 46>>
       /\ (t = <<8212>> /\ ~n) => out = <<8212>>
       /\ (\A i \in DOMAIN t : t[i] \in InvisibleSet) => out = <<>>

C2_Witness ==
  /\ Cleaned
  /\ input.smart
  /\ \E i, j, k \in DOMAIN input.text :
       /\ i < j /\ j < k
       /\ input.text[i] = 97
       /\ input.text[j] = 8212
       /\ input.text[k] = 45
  /\ Present(input.text, InvisibleSet) # {}

\* C3: total_invisible_count is the sum of count over the findings and the
\* number of characters of the text (occurrences) that are in the invisible
\* table; there is exactly one finding per distinct invisible code point present.
C3_TotalInvisibleCount ==
  Scanned =>
    LET t == input.text
        fs == scan_result.findings
    IN /\ scan_result.total_invisible_count = CountTotal(fs)
       /\ scan_result.total_invisible_count = MemberCount(t, InvisibleSet)
       /\ Len(fs) = Cardinality(Present(t, InvisibleSet))
       /\ {fs[i].char : i \in DOMAIN fs} = {Label(c) : c \in Present(t, InvisibleSet)}

C3_Witness ==
  /\ Scanned
  /\ Len(scan_result.findings) = 2
  /\ scan_result.total_invisible_count = 3
  /\ Present(input.text, SmartSet) # {}

\* the rank the claim gives a threat level
ThreatRank(level) == IF level = "high" THEN 0 ELSE IF level = "medium" THEN 1 ELSE 2

\* C4: the findings are ordered high, then medium, then low, and findings of
\* the same threat level are in order of non-increasing count.
C4_FindingsSorted ==
  Scanned =>
    LET fs == scan_result.findings
    IN \A i, j \in DOMAIN fs :
         i < j =>
           /\ fs[i].threat_level \in {"high", "medium", "low"}
           /\ ThreatRank(fs[i].threat_level) <= ThreatRank(fs[j].threat_level)
           /\ fs[i].threat_level = fs[j].threat_level => fs[i].count >= fs[j].count

\* a text whose first occurrences come in the order low, medium, medium, high,
\* the later medium code point being the more frequent one
C4_Witness ==
  /\ Scanned
  /\ input.text = <<8195, 8206, 6158, 6158>>
  /\ Len(scan_result.findings) = 3
  /\ scan_result.findings[1].count = 2

\* the code point a finding is about
FindingChar(t, f) == CHOOSE c \in Present(t, InvisibleSet) : Label(c) = f.char

\* C5: every finding's count is the true number of occurrences of its code
\* point, regardless of the cap, and its positions are exactly the first
\* min(count, 50) 0-based offsets of that code point, ascending.
C5_CountAndPositions ==
  Scanned =>
    LET t == input.text
        fs == scan_result.findings
    IN \A i \in DOMAIN fs :
         LET c == FindingChar(t, fs[i])
             offs == Offsets(t, c)
             p == fs[i].positions
         IN /\ fs[i].count = Occurrences(t, c)
            /\ Len(p) = IF fs[i].count < 50 THEN fs[i].count ELSE 50
            /\ \A k \in DOMAIN p :
                 /\ p[k] \in offs
                 /\ Cardinality({o \in offs : o < p[k]}) = k - 1

\* more than 50 occurrences, not contiguous
C5_Witness ==
  /\ Scanned
  /\ \E i \in DOMAIN scan_result.findings :
       /\ scan_result.findings[i].count > 50
       /\ Len(scan_result.findings[i].positions) = 50
       /\ scan_result.findings[i].positions[50] = 99

HasCategory(t, cat) ==
  \E i \in DOMAIN t : t[i] \in InvisibleSet /\ INVISIBLE_CHARS[t[i]].category = cat

\* C6: likely_source is none when total_invisible_count = 0; otherwise
\* tokenizer_artifact when a zero-width character is present; otherwise
\* copy_paste when a bidi character is present; otherwise formatting.  A text
\* with both zero-width and bidi characters yields tokenizer_artifact.
C6_LikelySource ==
  Scanned =>
    LET t == input.text
    IN /\ scan_result.context.likely_source =
            IF scan_result.total_invisible_count = 0 THEN "none"
            ELSE IF HasCategory(t, "zero-width") THEN "tokenizer_artifact"
            ELSE IF HasCategory(t, "bidi") THEN "copy_paste"
            ELSE "formatting"
       /\ (HasCategory(t, "zero-width") /\ HasCategory(t, "bidi"))
            => scan_result.context.likely_source = "tokenizer_artifact"
       /\ scan_result.total_invisible_count = 0 <=> MemberCount(t, InvisibleSet) = 0

\* bidi first, zero-width later in the text
C6_Witness ==
  /\ Scanned
  /\ Len(input.text) >= 2
  /\ input.text[1] = 8206
  /\ input.text[Len(input.text)] = 8203
  /\ scan_result.context.likely_source = "tokenizer_artifact"

\* C7: removals has exactly one entry per distinct code point removed or
\* replaced, each entry's count is the number of occurrences of that code
\* point in the source text, and chars_removed is the sum of those counts
\* (source characters consumed, not characters emitted).
C7_Removals ==
  Cleaned =>
    LET t == input.text
        used == Present(t, Consumed(input.smart))
        rs == clean_result.removals
    IN /\ Len(rs) = Cardinality(used)
       /\ {rs[i].char : i \in DOMAIN rs} = {Label(c) : c \in used}
       /\ \A i \in DOMAIN rs :
            rs[i].count = Occurrences(t, CHOOSE c \in used : Label(c) = rs[i].char)
       /\ clean_result.chars_removed = CountTotal(rs)
       /\ clean_result.chars_removed = MemberCount(t, Consumed(input.smart))

\* an em dash replaced twice (two consumed, four emitted) and an invisible character
C7_Witness ==
  /\ Cleaned
  /\ input.smart
  /\ Occurrences(input.text, 8212) = 2
  /\ Present(input.text, InvisibleSet) # {}
  /\ Len(clean_result.removals) = 2

\* C8: with normalize_smart_chars false, cleaned_length + chars_removed =
\* original_length, the lengths being the character counts of output and
\* input; with the flag true the sum exceeds original_length by the number of
\* characters the replacements emit, so the equality fails whenever a smart
\* character is replaced.
C8_LengthAccounting ==
  Cleaned =>
    LET t == input.text
        n == input.smart
        emitted == Cardinality({<<i, k>> \in (DOMAIN t) \X (1..3) :
                                  /\ t[i] \in SmartSet
                                  /\ k <= Len(SMART_CHARS[t[i]].replacement)})
    IN /\ clean_result.original_length = Len(t)
       /\ clean_result.cleaned_length = Len(clean_result.cleaned_text)
       /\ ~n => clean_result.cleaned_length + clean_result.chars_removed
                  = clean_result.original_length
       /\ n => clean_result.cleaned_length + clean_result.chars_removed
                 = clean_result.original_length + emitted
       /\ (n /\ Present(t, SmartSet) # {})
            => clean_result.cleaned_length + clean_result.chars_removed
                 # clean_result.original_length

\* pure removal of a repeated invisible character, smart characters left alone
C8_Witness ==
  /\ Cleaned
  /\ ~input.smart
  /\ Present(input.text, SmartSet) # {}
  /\ clean_result.chars_removed >= 2
  /\ Len(clean_result.removals) = 1

\* C9: smart_chars is null when the flag is false; when it is true it is an
\* empty sequence if the text has no smart character, and otherwise holds
\* exactly one entry per distinct smart code point present, with its total
\* count and its ASCII replacement.  Smart characters never contribute to
\* findings or total_invisible_count.
C9_SmartChars ==
  Scanned =>
    LET t == input.text
        used == Present(t, SmartSet)
    IN /\ ~input.smart => scan_result.smart_chars = None
       /\ input.smart =>
            /\ scan_result.smart_chars # None
            /\ LET ss == scan_result.smart_chars.value
               IN /\ used = {} => ss = <<>>
                  /\ Len(ss) = Cardinality(used)
                  /\ {ss[i].char : i \in DOMAIN ss} = {Label(c) : c \in used}
                  /\ \A i \in DOMAIN ss :
                       LET c == CHOOSE d \in used : Label(d) = ss[i].char
                       IN /\ ss[i].count = Occurrences(t, c)
                          /\ ss[i].replacement = SMART_CHARS[c].replacement
       /\ \A i \in DOMAIN scan_result.findings :
            scan_result.findings[i].char \notin {Label(c) : c \in SmartSet}
       /\ scan_result.total_invisible_count = MemberCount(t, InvisibleSet)
       /\ scan_result.has_invisible_chars <=> Present(t, InvisibleSet) # {}

C9_Witness ==
  /\ Scanned
  /\ input.smart
  /\ scan_result.smart_chars # None
  /\ Len(scan_result.smart_chars.value) = 2
  /\ \E i \in {1, 2} : scan_result.smart_chars.value[i].count = 2
  /\ scan_result.has_invisible_chars

\* with the flag set and no smart character in the text, the empty list
C9_WitnessEmpty ==
  /\ Scanned
  /\ input.smart
  /\ scan_result.smart_chars = Some(<<>>)

(***************************************************************************)
(* Properties of detect_all and the detect router.                         *)
(***************************************************************************)
\* the tasks that returned a DetectionResult
DoneTasks == {i \in DOMAIN tasks : tasks[i].status = "done"}

\* the results of the tasks that returned, in task order
TaskSuccesses ==
  LET done(t) == t.status = "done"
      kept == SelectSeq(tasks, done)
  IN [i \in DOMAIN kept |-> kept[i].outcome]

\* C10: detect_all never raises, whichever detectors fail; it returns one
\* outcome per selected detector, in selection order: the DetectionResult of
\* each detector that succeeded, the exception of each that failed; no failure
\* discards another detector's result; the summary is computed over the
\* successes only.
C10_FailureIsolation ==
  /\ dpc # "raised"
  /\ dpc \in {"returned", "responded"} =>
       /\ raw_results # None
       /\ Len(raw_results.value) = Len(detectors)
       /\ Len(tasks) = Len(detectors)
       /\ \A i \in DOMAIN detectors :
            /\ raw_results.value[i].detector = detectors[i]
            /\ tasks[i].status \in {"done", "failed"}
            /\ tasks[i].status = "done" =>
                 /\ raw_results.value[i] = tasks[i].outcome
                 /\ raw_results.value[i].type = "DetectionResult"
            /\ tasks[i].status = "failed" => raw_results.value[i].type = "Exception"
  /\ dpc = "responded" =>
       LET out == response.value
       IN /\ Len(out.results) = Cardinality(DoneTasks)
          /\ \A i \in DOMAIN out.results :
               /\ out.results[i].detector = TaskSuccesses[i].detector
               /\ out.results[i].verdict = TaskSuccesses[i].verdict
          /\ out.summary = _build_summary(TaskSuccesses)
          /\ out.summary.consensus = "likely_ai" <=>
               /\ DoneTasks # {}
               /\ \A i \in DoneTasks : tasks[i].outcome.verdict = "likely_ai"
          /\ out.summary.consensus = "likely_human" <=>
               /\ DoneTasks # {}
               /\ \A i \in DoneTasks : tasks[i].outcome.verdict = "likely_human"

\* three detectors, the second fails, the other two agree
C10_Witness ==
  /\ dpc = "responded"
  /\ Len(tasks) = 3
  /\ tasks[1].status = "done"
  /\ tasks[2].status = "failed"
  /\ tasks[3].status = "done"
  /\ Len(response.value.results) = 2
  /\ response.value.summary.consensus = "likely_ai"
  /\ response.value.summary.agreement_ratio = ScoreOne

\* C11: detect_all starts the calls of all selected detectors together (while
\* it waits, every selected detector has its call in flight or finished, none
\* waits for another), it returns only when every call has finished with a
\* result or a failure, and, every call ending, it eventually returns.
C11_JoinsAll ==
  /\ [](dpc = "gathering" =>
          /\ Len(tasks) = Len(detectors)
          /\ detectors # <<>>
          /\ \A i \in DOMAIN tasks : tasks[i].status \in {"pending", "done", "failed"})
  /\ [](dpc \in {"returned", "responded"} =>
          /\ Len(tasks) = Len(detectors)
          /\ \A i \in DOMAIN tasks : tasks[i].status \in {"done", "failed"}
          /\ Len(raw_results.value) = Len(tasks))
  /\ (dpc = "start" ~> dpc = "returned")

\* detect_all has returned from three calls: the first failed, the others
\* returned a result
C11_Witness ==
  /\ dpc = "returned"
  /\ Len(tasks) = 3
  /\ tasks[1].status = "failed"
  /\ tasks[2].status = "done"
  /\ tasks[3].status = "done"

\* two calls in flight together, and a later call finished before an earlier one
C11_WitnessInFlight ==
  /\ dpc = "gathering"
  /\ Len(tasks) = 3
  /\ tasks[1].status = "pending"
  /\ tasks[2].status = "pending"
  /\ tasks[3].status = "done"

\* the elements of a sequence
Range(xs) == {xs[i] : i \in DOMAIN xs}

\* the registered detectors whose is_available() is true
AvailableNames == {n \in Range(RegisteredNames) : is_available(n, api_keys)}

\* C12: once detect_all has made its selection, an explicit subset (an empty
\* one included) has only detectors it names invoked; no subset has exactly
\* the available registered detectors invoked; an empty selection has no
\* detector called and the empty list returned.
C12_Selection ==
  dpc # "start" =>
    /\ Len(tasks) = Len(detectors)
    /\ request_detectors # None => Range(detectors) \subseteq Range(request_detectors.value)
    /\ request_detectors = None => Range(detectors) = AvailableNames
    /\ detectors = <<>> => tasks = <<>> /\ raw_results = Some(<<>>)
    /\ Range(detectors) \subseteq Range(RegisteredNames)

\* the DetectionResults the detector calls have produced
Produced == {tasks[i].outcome : i \in DoneTasks}

\* C13: every DetectionResult a detector produces carries the verdict of the
\* uniform rule on its own ai_score: likely_ai exactly when ai_score >= 0.7,
\* likely_human exactly when ai_score <= 0.3, uncertain exactly when strictly
\* between.
C13_UniformVerdict ==
  \A r \in Produced :
    /\ r.verdict \in {"likely_ai", "likely_human", "uncertain"}
    /\ r.verdict = "likely_ai" <=> 10 * r.ai_score >= 7 * ScoreOne
    /\ r.verdict = "likely_human" <=> 10 * r.ai_score <= 3 * ScoreOne
    /\ r.verdict = "uncertain" <=>
         (3 * ScoreOne < 10 * r.ai_score /\ 10 * r.ai_score < 7 * ScoreOne)

\* Sapling at exactly 0.7, a Hugging Face model at 0.5, a Groq judge at
\* exactly 0.3: likely_ai, uncertain, likely_human
C13_Witness ==
  /\ Len(tasks) = 5
  /\ DoneTasks = {1, 2, 4}
  /\ detectors[1] = "sapling"
  /\ tasks[1].outcome.ai_score = 7 * (ScoreOne \div 10)
  /\ tasks[1].outcome.verdict = "likely_ai"
  /\ detectors[2] = "hf_roberta_coai"
  /\ tasks[2].outcome.ai_score = ScoreOne \div 2
  /\ tasks[2].outcome.verdict = "uncertain"
  /\ detectors[4] = "groq_stylistic"
  /\ tasks[4].outcome.ai_score = 3 * (ScoreOne \div 10)
  /\ tasks[4].outcome.verdict = "likely_human"

\* the successful results that carry verdict v
WithVerdict(v) == {i \in DoneTasks : tasks[i].outcome.verdict = v}

\* C14: the summary consensus over the successful results is likely_ai when
\* all are likely_ai, likely_human when all are likely_human, mixed when a
\* likely_ai and a likely_human are both present, and uncertain in every
\* other case (the empty list included).
C14_Consensus ==
  dpc = "responded" =>
    LET consensus == response.value.summary.consensus
        all_ai == DoneTasks # {} /\ WithVerdict("likely_ai") = DoneTasks
        all_human == DoneTasks # {} /\ WithVerdict("likely_human") = DoneTasks
        both == WithVerdict("likely_ai") # {} /\ WithVerdict("likely_human") # {}
    IN /\ all_ai => consensus = "likely_ai"
       /\ all_human => consensus = "likely_human"
       /\ both => consensus = "mixed"
       /\ ~all_ai /\ ~all_human /\ ~both => consensus = "uncertain"

\* a likely_ai and an uncertain result, no likely_human: uncertain, not mixed
C14_Witness ==
  /\ dpc = "responded"
  /\ WithVerdict("likely_ai") # {}
  /\ WithVerdict("uncertain") # {}
  /\ WithVerdict("likely_human") = {}
  /\ response.value.summary.consensus = "uncertain"

\* all three verdicts present: mixed
C14_WitnessMixed ==
  /\ dpc = "responded"
  /\ WithVerdict("likely_ai") # {}
  /\ WithVerdict("uncertain") # {}
  /\ WithVerdict("likely_human") # {}
  /\ response.value.summary.consensus = "mixed"

\* the size of the largest of the three verdict groups
LargestGroup ==
  LET sizes == {Cardinality(WithVerdict(v)) : v \in {"likely_ai", "likely_human", "uncertain"}}
  IN CHOOSE n \in sizes : \A m \in sizes : m <= n

RECURSIVE SumOver(_)
\* the sum of the ai_score of the successful results with index in S
SumOver(S) ==
  IF S = {} THEN 0
  ELSE LET i == CHOOSE j \in S : TRUE
       IN tasks[i].outcome.ai_score + SumOver(S \ {i})

\* x is num / den rounded to 4 decimal places: a multiple of 0.0001 no further
\* than 0.00005 from the quotient
IsRounded4(x, num, den) ==
  LET diff == x * den - num
  IN /\ x % 10 = 0
     /\ 2 * diff <= 10 * den
     /\ -2 * diff <= 10 * den

\* C15 as stated: agreement_ratio is exactly the largest verdict group over
\* the number of results, average_ai_score exactly the mean of the ai_score;
\* both 0 for the empty list.
C15_ExactRatio ==
  dpc = "responded" =>
    LET summary == response.value.summary
        total == Cardinality(DoneTasks)
    IN IF total = 0
       THEN summary.agreement_ratio = 0 /\ summary.average_ai_score = 0
       ELSE /\ summary.agreement_ratio * total = LargestGroup * ScoreOne
            /\ summary.average_ai_score * total = SumOver(DoneTasks)

\* C15 (amended): agreement_ratio is the largest of the three verdict groups
\* over the number of results, and average_ai_score the mean of the ai_score,
\* each rounded to 4 decimal places; both are 0 for the empty list.
C15_RoundedRatio ==
  dpc = "responded" =>
    LET summary == response.value.summary
        total == Cardinality(DoneTasks)
    IN IF total = 0
       THEN summary.agreement_ratio = 0 /\ summary.average_ai_score = 0
       ELSE /\ IsRounded4(summary.agreement_ratio, LargestGroup * ScoreOne, total)
            /\ IsRounded4(summary.average_ai_score, SumOver(DoneTasks), total)

\* three results, two of them uncertain and one likely_ai: 2/3 is reported
\* as 0.6667
C15_Witness ==
  /\ dpc = "responded"
  /\ Cardinality(DoneTasks) = 3
  /\ Cardinality(WithVerdict("uncertain")) = 2
  /\ Cardinality(WithVerdict("likely_ai")) = 1
  /\ response.value.summary.agreement_ratio = 66670

\* an even split: one likely_ai, one likely_human, ratio 0.5
C15_WitnessEvenSplit ==
  /\ dpc = "responded"
  /\ Cardinality(DoneTasks) = 2
  /\ Cardinality(WithVerdict("likely_ai")) = 1
  /\ Cardinality(WithVerdict("likely_human")) = 1
  /\ response.value.summary.agreement_ratio = ScoreOne \div 2

(***************************************************************************)
(* Properties of the comparator and the compare router.  The pairs are     *)
(* taken from the outcomes of the detector calls, not from compare_results.*)
(***************************************************************************)
CompareResponded == cpc = "responded"

\* the results of the calls of batch b that returned, in call order
Successes(b) ==
  LET done(t) == t.status = "done"
      kept == SelectSeq(batches[b].tasks, done)
  IN [i \in DOMAIN kept |-> kept[i].outcome]

\* detector id d has a successful result on the cleaned text
HasCleaned(d) == \E k \in DOMAIN Successes("clean") : Successes("clean")[k].detector = d

\* the successful result of detector id d on the cleaned text (the last one,
\* when the request names d more than once)
CleanedFor(d) ==
  LET C == Successes("clean")
      k == CHOOSE j \in DOMAIN C :
             C[j].detector = d /\ \A m \in DOMAIN C : m > j => C[m].detector # d
  IN C[k]

\* the original successes whose detector id also succeeded on the cleaned
\* text, in the order of the original list
Compared ==
  LET both(r) == HasCleaned(r.detector)
  IN SelectSeq(Successes("orig"), both)

\* the compared results whose verdict differs from the cleaned one
Flipped ==
  LET differs(r) == r.verdict # CleanedFor(r.detector).verdict
  IN SelectSeq(Compared, differs)

\* cleaned ai_score minus original ai_score, not rounded
ExactDelta(r) == CleanedFor(r.detector).ai_score - r.ai_score

\* the two lists name exactly the compared detectors and, among them, the
\* ones whose verdict changed, in the order of the original list
ComparedEntries ==
  LET cmp == compare_response.value.comparison
      changes == cmp.detectors_that_changed_verdict
  IN /\ Len(cmp.score_deltas) = Len(Compared)
     /\ \A i \in DOMAIN Compared : cmp.score_deltas[i].detector = Compared[i].detector
     /\ Len(changes) = Len(Flipped)
     /\ \A i \in DOMAIN Flipped :
          /\ changes[i].detector = Flipped[i].detector
          /\ changes[i].before_verdict = Flipped[i].verdict
          /\ changes[i].after_verdict = CleanedFor(Flipped[i].detector).verdict
          /\ changes[i].before_verdict # changes[i].after_verdict

C16_WitnessMissing ==
  /\ CompareResponded
  /\ Len(Successes("orig")) = 2
  /\ Len(Successes("clean")) = 1
  /\ Len(compare_response.value.comparison.score_deltas) = 1
  /\ Successes("orig")[1].detector # Successes("clean")[1].detector

RECURSIVE SumAbs(_, _)
\* the sum of the absolute values of seq[i].delta
SumAbs(seq, S) ==
  IF S = {} THEN 0
  ELSE LET i == CHOOSE j \in S : TRUE
       IN (IF seq[i].delta < 0 THEN -seq[i].delta ELSE seq[i].delta) + SumAbs(seq, S \ {i})

\* the mean absolute delta of the score_deltas entries exceeds 0.05
MeanDeltaAbove ==
  LET deltas == compare_response.value.comparison.score_deltas
  IN 100 * SumAbs(deltas, DOMAIN deltas) > 5 * ScoreOne * Len(deltas)

\* C17: build_insight takes the first rule that matches: chars_removed == 0
\* gives inconclusive whatever the detectors returned; no compared detector
\* gives inconclusive; a verdict change gives byte_pattern_dependent; no
\* verdict change and a mean absolute delta above 0.05 gives
\* byte_pattern_dependent; anything else content_based.  So content_based
\* needs chars_removed > 0, a compared detector, no verdict change and a
\* mean absolute delta of at most 0.05.
C17_InsightRules ==
  CompareResponded =>
    LET cmp == compare_response.value.comparison
        assessment == cmp.reliability_assessment
        compared == Len(cmp.score_deltas)
        changed == Len(cmp.detectors_that_changed_verdict)
    IN /\ cmp.chars_removed = 0 => assessment = "inconclusive"
       /\ cmp.chars_removed > 0 /\ compared = 0 => assessment = "inconclusive"
       /\ cmp.chars_removed > 0 /\ compared > 0 /\ changed > 0 =>
            assessment = "byte_pattern_dependent"
       /\ cmp.chars_removed > 0 /\ compared > 0 /\ changed = 0 /\ MeanDeltaAbove =>
            assessment = "byte_pattern_dependent"
       /\ cmp.chars_removed > 0 /\ compared > 0 /\ changed = 0 /\ ~MeanDeltaAbove =>
            assessment = "content_based"
       /\ assessment = "content_based" =>
            cmp.chars_removed > 0 /\ compared > 0 /\ changed = 0 /\ ~MeanDeltaAbove

\* nothing removed, a detector changed its verdict: inconclusive all the same
C17_Witness ==
  /\ CompareResponded
  /\ compare_response.value.comparison.chars_removed = 0
  /\ Len(compare_response.value.comparison.detectors_that_changed_verdict) > 0
  /\ compare_response.value.comparison.reliability_assessment = "inconclusive"

\* characters removed, two detectors compared, no verdict changed, the mean
\* delta above 0.05 although one delta is 0
C17_WitnessShifted ==
  /\ CompareResponded
  /\ compare_response.value.comparison.chars_removed > 0
  /\ Len(compare_response.value.comparison.score_deltas) = 2
  /\ compare_response.value.comparison.score_deltas[1].delta = 0
  /\ compare_response.value.comparison.detectors_that_changed_verdict = <<>>
  /\ compare_response.value.comparison.reliability_assessment = "byte_pattern_dependent"

\* characters removed, a detector compared, scores stable: content_based
C17_WitnessStable ==
  /\ CompareResponded
  /\ compare_response.value.comparison.chars_removed > 0
  /\ Len(compare_response.value.comparison.score_deltas) > 0
  /\ compare_response.value.comparison.reliability_assessment = "content_based"

\* C18 as stated: in a compare run, whenever a detector that succeeded on
\* both texts returned different verdicts for the two calls, the response has
\* reliability_assessment byte_pattern_dependent and the detector's id is in
\* the verdict-change list.
C18_FlipIsBytePatternDependent ==
  CompareResponded =>
    \A i \in DOMAIN Flipped :
      /\ compare_response.value.comparison.reliability_assessment = "byte_pattern_dependent"
      /\ \E k \in DOMAIN compare_response.value.comparison.detectors_that_changed_verdict :
           compare_response.value.comparison.detectors_that_changed_verdict[k].detector
             = Flipped[i].detector

\* C18 (amended): in a compare run that removed at least one character,
\* whenever a detector that succeeded on both texts returned different
\* verdicts for the two calls, the response has reliability_assessment
\* byte_pattern_dependent; whatever was removed, the detector's id is in the
\* verdict-change list.
C18_FlipAfterRemoval ==
  CompareResponded =>
    \A i \in DOMAIN Flipped :
      /\ clean_result.chars_removed > 0 =>
           compare_response.value.comparison.reliability_assessment = "byte_pattern_dependent"
      /\ \E k \in DOMAIN compare_response.value.comparison.detectors_that_changed_verdict :
           compare_response.value.comparison.detectors_that_changed_verdict[k].detector
             = Flipped[i].detector

\* a zero-width space removed, Sapling goes from 0.66 (uncertain) to 0.7
\* (likely_ai): a delta of 0.04 only, and byte_pattern_dependent
C18_Witness ==
  /\ CompareResponded
  /\ clean_result.chars_removed = 1
  /\ Len(Flipped) = 1
  /\ Flipped[1].detector = "sapling"
  /\ Flipped[1].ai_score = 66000
  /\ CleanedFor("sapling").ai_score = 70000
  /\ compare_response.value.comparison.reliability_assessment = "byte_pattern_dependent"
  /\ compare_response.value.comparison.detectors_that_changed_verdict[1].detector = "sapling"

\* the assessment the comparator's rules give on the score deltas as they
\* are before rounding
AssessmentFromExactDeltas ==
  LET exact == [i \in DOMAIN Compared |-> [delta |-> ExactDelta(Compared[i])]]
  IN IF clean_result.chars_removed = 0 THEN "inconclusive"
     ELSE IF Len(Compared) = 0 THEN "inconclusive"
     ELSE IF Len(Flipped) > 0 THEN "byte_pattern_dependent"
     ELSE IF 100 * SumAbs(exact, DOMAIN exact) > 5 * ScoreOne * Len(exact)
          THEN "byte_pattern_dependent"
     ELSE "content_based"

\* C19: rounding to 4 decimal places touches only the reported values; the
\* comparator decides (the mean absolute delta > 0.05 test included) on the
\* unrounded score deltas, so the reliability assessment is the one the
\* unrounded deltas give.
C19_DecidesOnUnrounded ==
  CompareResponded =>
    compare_response.value.comparison.reliability_assessment = AssessmentFromExactDeltas

\* C20: every DetectionResult a detector produces, whatever its provider
\* answered, has ai_score within [0,1], human_score within [0,1] and
\* human_score = 1 - ai_score.
C20_ScoresInUnitInterval ==
  \A r \in Produced :
    /\ 0 <= r.ai_score /\ r.ai_score <= ScoreOne
    /\ 0 <= r.human_score /\ r.human_score <= ScoreOne
    /\ r.human_score = ScoreOne - r.ai_score

(***************************************************************************)
(* Properties of the Groq detectors.                                       *)
(***************************************************************************)
\* the object _parse_response recovers from the completion ({} when none)
Recovered == _parse_response(raw_text(groq_call.content))

\* C21: whatever the completion holds, detect() returns a DetectionResult
\* whose ai_score lies in [0,1]: the clamped ai_probability of the object
\* recovered when it has one, and otherwise 0.5 with the verdict uncertain,
\* and no markers when no object with markers was recovered.
C21_MalformedNeverRaises ==
  gpc = "returned" =>
    LET r == groq_result.value.outcome
        note == groq_result.value.note
    IN /\ r.type = "DetectionResult"
       /\ r.ai_score >= 0 /\ r.ai_score <= ScoreOne
       /\ IF Recovered.type = "dict" /\ DictHas(Recovered.value, "ai_probability")
             /\ get(Recovered, "ai_probability").type = "number"
          THEN r.ai_score = Max(0, Min(ScoreOne, get(Recovered, "ai_probability").value))
          ELSE r.ai_score = ScoreOne \div 2 /\ r.verdict = "uncertain"
       /\ (Recovered.type # "dict" \/ Recovered.value = <<>>) => note.value.markers = <<>>

(***************************************************************************)
(* Properties of the endpoints under detector failures.                    *)
(***************************************************************************)
\* the summary of no result
EmptySummary == [consensus |-> "uncertain", agreement_ratio |-> 0, average_ai_score |-> 0]

\* every detector call of the detect request has failed (and there was one)
AllTasksFailed == tasks # <<>> /\ \A i \in DOMAIN tasks : tasks[i].status = "failed"

\* every detector call of both batches has failed (and there was one)
AllBatchTasksFailed ==
  \A b \in BatchNames :
    /\ batches[b].tasks # <<>>
    /\ \A i \in DOMAIN batches[b].tasks : batches[b].tasks[i].status = "failed"

C22_WitnessCompare ==
  /\ cpc = "responded"
  /\ AllBatchTasksFailed
  /\ compare_response.value.comparison.score_deltas = <<>>

(***************************************************************************)
(* Properties of the registry singleton.                                   *)
(***************************************************************************)
\* the names under which a registry holds detectors, in order
registered_names(registry) ==
  [i \in DOMAIN registry._detectors |-> registry._detectors[i].key]

\* C23: _init_registry runs at most once; every get_registry() call returns
\* a registry, the same instance for all callers; the registry that is
\* installed holds the five detectors and is never replaced.
C23_Singleton ==
  /\ init_runs <= 1
  /\ \A c \in Callers : \A i \in DOMAIN got[c] :
       /\ got[c][i].type = "DetectorRegistry"
       /\ got[c][i].id = 1
       /\ _registry = Some(got[c][i])
  /\ _registry # None => registered_names(_registry.value) = RegisteredNames

(***************************************************************************)
(* Properties of the two detector batches of compare.                      *)
(***************************************************************************)
\* both detect_all calls exist
Detecting == cpc \in {"detecting", "responded"}

\* the calls of batch b that are in flight
Pending(b) == {i \in DOMAIN batches[b].tasks : batches[b].tasks[i].status = "pending"}

\* the state of the two batches: both exist from the gather on, both select
\* the request's subset, each has one call per entry of its selection, and
\* the response exists only when both have returned with no call left
C24_BatchesState ==
  Detecting =>
    /\ \A b \in BatchNames :
         /\ batches[b].pc # "start" =>
              batches[b].detectors = selected_detectors(request_detectors, api_keys)
         /\ Len(batches[b].tasks) = Len(batches[b].detectors)
         /\ Pending(b) # {} => batches[b].pc = "gathering"
    /\ cpc = "responded" =>
         \A b \in BatchNames : batches[b].pc = "returned" /\ Pending(b) = {}

\* a step of a batch: a call is made when its batch starts and at no other
\* time, and it changes once, from in flight to returned or failed
C24_BatchesStep ==
  cpc = "detecting" =>
    \A b \in BatchNames :
      /\ batches[b].pc # "start" => DOMAIN batches'[b].tasks = DOMAIN batches[b].tasks
      /\ \A i \in DOMAIN batches[b].tasks :
           batches'[b].tasks[i] # batches[b].tasks[i] =>
             /\ batches[b].tasks[i] = [status |-> "pending", outcome |-> None]
             /\ batches'[b].tasks[i].status \in {"done", "failed"}

C24_WitnessConcurrent ==
  /\ cpc = "detecting"
  /\ \A b \in BatchNames : batches[b].pc = "gathering" /\ Pending(b) # {}

(***************************************************************************)
(* C25                                                                     *)
(***************************************************************************)
\* the statuses of the responses the running detect_hf call has received
Statuses == [i \in DOMAIN responses |-> responses[i].status]

\* the requests the running detect_hf call has sent
RequestsSent == Len(responses) + (IF epc = "posted" THEN 1 ELSE 0)

\* the call of phase ph to model d has returned score v
Returned(ph, d, v) == ~scores[ph][d].is_none /\ scores[ph][d].value = v

\* the call of phase ph to model d has returned the sentinel
ReturnedSentinel(ph, d) == Returned(ph, d, Failed)

\* the score map of phase ph
ScoreMap(ph) == IF ph = "baseline" THEN baseline_scores ELSE injected_scores

C25_WitnessThirdRequest ==
  /\ epc = "returned"
  /\ Len(responses) = attempt_range
  /\ responses[1].status = 429
  /\ responses[2].status = 503
  /\ responses[3].status = 200
  /\ Returned(phase, det_index, 90000)

(***************************************************************************)
(* C26                                                                     *)
(***************************************************************************)
\* C26: the cleaned_text that clean returns holds no character of the
\* invisible table, so that scanning it reports has_invisible_chars false, a
\* count of 0 and no findings; under normalize_smart_chars it holds no
\* character of the smart table either; and no replacement string of the
\* smart table contains a character of either table.
C26_CleanedIsClean ==
  /\ \A c \in SmartSet :
       Present(SMART_CHARS[c].replacement, InvisibleSet \cup SmartSet) = {}
  /\ Cleaned =>
       LET out == clean_result.cleaned_text
           rescan == scan(out, input.smart)
       IN /\ Present(out, InvisibleSet) = {}
          /\ ~rescan.has_invisible_chars
          /\ rescan.total_invisible_count = 0
          /\ rescan.findings = <<>>
          /\ input.smart => Present(out, SmartSet) = {}
          /\ input.smart => rescan.smart_chars.value = <<>>

\* a text with an invisible character and an em dash, cleaned under the flag:
\* the two hyphens of the replacement are in the cleaned text
C26_Witness ==
  /\ Cleaned
  /\ input.smart
  /\ Present(input.text, InvisibleSet) # {}
  /\ 8212 \in Present(input.text, SmartSet)
  /\ \E i \in DOMAIN clean_result.cleaned_text :
       /\ i < Len(clean_result.cleaned_text)
       /\ clean_result.cleaned_text[i] = 45
       /\ clean_result.cleaned_text[i + 1] = 45

(***************************************************************************)
(* C27                                                                     *)
(***************************************************************************)
\* C27: clean reports chars_removed = 0 exactly when cleaned_text is the
\* input text, character for character.
C27_ZeroIffIdentical ==
  Cleaned =>
    (clean_result.chars_removed = 0 <=> clean_result.cleaned_text = input.text)

\* a text of the same length before and after, yet changed: a curly quote
\* became a straight one, and chars_removed counts it
C27_Witness ==
  /\ Cleaned
  /\ input.smart
  /\ input.text # <<>>
  /\ Len(clean_result.cleaned_text) = Len(input.text)
  /\ clean_result.cleaned_text # input.text
  /\ clean_result.chars_removed > 0

\* smart characters left alone without the flag: nothing removed, text identical
C27_WitnessUnchanged ==
  /\ Cleaned
  /\ ~input.smart
  /\ Present(input.text, SmartSet) # {}
  /\ clean_result.chars_removed = 0
  /\ clean_result.cleaned_text = input.text

(***************************************************************************)
(* C28                                                                     *)
(***************************************************************************)
\* the sum of the counts of the smart characters a ScanResponse lists
SmartTotal(scan_response) ==
  IF scan_response.smart_chars.is_none THEN 0
  ELSE CountTotal(scan_response.smart_chars.value)

\* C28: in a compare response, comparison.chars_removed equals
\* scan.total_invisible_count when normalize_smart_chars is false, and
\* scan.total_invisible_count plus the sum of the counts of scan.smart_chars
\* when it is true.
C28_RemovedAgreesWithScan ==
  cpc = "responded" =>
    LET r == compare_response.value
    IN r.comparison.chars_removed =
         IF input.smart
         THEN r.scan.total_invisible_count + SmartTotal(r.scan)
         ELSE r.scan.total_invisible_count

\* a response under the flag on a text with two zero-width spaces, two em
\* dashes and a curly quote: five characters removed
C28_Witness ==
  /\ cpc = "responded"
  /\ input.smart
  /\ compare_response.value.scan.total_invisible_count = 2
  /\ SmartTotal(compare_response.value.scan) = 3
  /\ Len(compare_response.value.scan.smart_chars.value) = 2
  /\ compare_response.value.comparison.chars_removed = 5

\* the same text without the flag: the scan lists no smart characters and
\* only the two zero-width spaces are removed
C28_WitnessFlagOff ==
  /\ cpc = "responded"
  /\ ~input.smart
  /\ Present(input.text, SmartSet) # {}
  /\ compare_response.value.scan.smart_chars.is_none
  /\ compare_response.value.comparison.chars_removed = 2

(***************************************************************************)
(* C29                                                                     *)
(***************************************************************************)
\* no detector id occurs twice in a list of entries with a detector field
DetectorsDistinct(xs) ==
  \A i, j \in DOMAIN xs : xs[i].detector = xs[j].detector => i = j

\* C29: whatever detector list the request carries, each detector id occurs
\* at most once in the results of a detect response and of either batch of
\* a compare response, and at most once in the comparison's score_deltas and
\* in its list of verdict changes.
C29_DetectorAtMostOnce ==
  /\ dpc = "responded" => DetectorsDistinct(response.value.results)
  /\ cpc = "responded" =>
       LET out == compare_response.value
       IN /\ DetectorsDistinct(out.original_detection.results)
          /\ DetectorsDistinct(out.cleaned_detection.results)
          /\ DetectorsDistinct(out.comparison.score_deltas)
          /\ DetectorsDistinct(out.comparison.detectors_that_changed_verdict)

(***************************************************************************)
(* C30                                                                     *)
(***************************************************************************)
\* C30: every detector on which detect_all calls detect() is available,
\* whether detect_all chose the detectors itself or the request named them.
C30_OnlyAvailableCalled ==
  \A i \in DOMAIN tasks : is_available(detectors[i], api_keys)

====
